---- MODULE Spec2Model ----
(***************************************************************************)
(* Gigi personal growth coach (src/core.py): the LangGraph turn workflow,  *)
(* the rate-limited retry wrapper around the text-generation call, and the *)
(* session / user / goal store; and the HTTP service's account tokens      *)
(* (src/fastapi_server.py).                                                *)
(*                                                                         *)
(* Time is counted in ticks of half a second, so that the wrapper's 4.5 s  *)
(* minimum interval and its 5 s / 10 s backoff bases are whole numbers.    *)
(* Clock readings are kept relative to the present: the reading of         *)
(* time.time() is always Now, and when d ticks pass every stored timestamp *)
(* moves d ticks into the past. A timestamp older than MinInterval is kept *)
(* as MinInterval old: the code only reads time_since_last below 4.5 s.    *)
(* Texts are sequences of tokens; ids are <<prefix, counter>> pairs.       *)
(***************************************************************************)
EXTENDS Integers, Sequences, FiniteSets, TLC

\* ---------------------------------------------------------------- bounds
\* turns (process_message calls) started in one behaviour
MaxTurns == 2
\* failures (store faults and failed generate_content calls) injected in one
\* behaviour of the multi-turn specifications
MaxFaults == 1
\* the daily counter starts at 0 or within this distance below the ceiling
NearCeiling == 2
\* longest duration, in ticks, of one blocking generate_content call
MaxCallTicks == 1
\* midnights that pass
MaxDays == 1
\* usernames (and e-mail addresses) the HTTP clients use
MaxAccounts == 2
\* tokens the HTTP service issues in one behaviour
MaxTokens == 3
\* reads of users.json that fail in one behaviour
MaxFileFaults == 1
\* coaching sessions the HTTP clients start
MaxCoachSessions == 1
\* message exchanges in one coaching session
MaxExchanges == 1
\* goals the HTTP clients create, and notes added to one goal
MaxCoachGoals == 1

\* ---------------------------------------------------- program constants
\* daily ceiling (core.py:457)
DailyLimit == 45
\* minimum interval between calls, 4.5 s = 9 ticks (core.py:462)
MinInterval == 9
\* attempt budget of one invoke (core.py:471)
MaxRetries == 3
\* rate/quota backoff base, 10 s = 20 ticks (core.py:481)
RateBackoffBase == 20
\* server-error backoff base, 5 s = 10 ticks (core.py:487)
ServerBackoffBase == 10

Procs == {1, 2}
\* time.time() (line 448), the origin of the relative clock
Now == 0
Max(a, b) == IF a >= b THEN a ELSE b
\* a past timestamp t, d ticks later
Age(t, d) == Max(t - d, Now - MinInterval)
\* a timer due at t, d ticks later
Due(t, d) == Max(t - d, Now)

\* ------------------------------------------------------------ the values
NoId == <<>>
NoText == <<>>
NoGoal == [none |-> TRUE]
NoState == [none |-> TRUE]

\* generate_internal_id: the first 32 characters of the Fernet token of the
\* raw id, that is the token's timestamp and 15 random bytes of its IV. The
\* id is unique per call and tells nothing of the prefix; the pair stands
\* for it, the prefix kept only to say what the id names.
GenerateInternalId(prefix, counter) == <<prefix, counter>>

\* Fernet encryption of a payload under the process key
EncryptData(data) == [cipher |-> "fernet", plain |-> data]
DecryptData(enc) == enc.plain

\* ------------------------------------------------- the wrapper's texts
HighDemandMsg == <<"high demand, try again in a few minutes">>
TechnicalMsg == <<"technical difficulties, quick tip">>
UnexpectedMsg == <<"unexpected issue, try rephrasing">>
UnavailableMsg == <<"temporarily unavailable">>
ApologyMsg == <<"apologize, technical difficulties, try again">>
FooterText == <<"---", "here to support you">>
\* the response of process_message's except branch (line 933)
FacadeApologyMsg == <<"apologize, technical difficulty, try again or rephrase">>
\* str(e) of what can leave app.ainvoke
EngineErrors == {<<"recursion", "limit", "reached">>,
                 <<"checkpoint", "write", "failed">>}
\* str(e) of what SessionLocal() can raise
ConnectErrors == {<<"unable", "to", "open", "database", "file">>,
                  <<"too", "many", "connections">>}
NoResult == [none |-> TRUE]

\* completions of the model: a free text and the shapes a goal extraction
\* answer can take ("{" "}" "[" "]" are JSON structure, "w" is prose, the
\* capital letters are well-typed fields, "d" is domains given as a string)
PlainText == <<"w">>
GoalJson == <<"{", "P", "D", "T", "O", "}">>
FencedGoalJson == <<"w", "{", "P", "D", "T", "O", "}", "w">>
ListJson == <<"[", "]">>
MissingFieldJson == <<"{", "P", "}">>
WrongTypeJson == <<"{", "P", "d", "T", "O", "}">>
BraceProse == <<"w", "{", "w", "}">>
GoalTexts ==
    {GoalJson, FencedGoalJson, PlainText, ListJson, MissingFieldJson,
     WrongTypeJson, BraceProse}

FieldTokens == {"P", "D", "T", "O", "d"}
FieldKey(tok) ==
    CASE tok \in {"P", "P0"} -> "primary_goal"
      [] tok \in {"D", "d", "D0"} -> "domains"
      [] tok \in {"T", "T0"} -> "timeframe"
      [] tok \in {"O", "O0"} -> "desired_outcomes"
\* whether the field's value has the type the Goal model declares
FieldWellTyped(tok) == tok # "d"
FieldValue(tok) ==
    CASE tok = "P" -> <<"lose 5kg">>
      [] tok \in {"D", "d"} -> <<"fitness">>
      [] tok = "T" -> <<"8 weeks">>
      [] tok = "O" -> <<"weigh 5kg less">>
      [] tok = "P0" -> <<"Personal growth and wellness">>
      [] tok = "D0" -> <<"lifestyle">>
      [] tok = "T0" -> <<"4 weeks">>
      [] tok = "O0" -> <<"Improved well-being">>

\* ------------------------------------------------------- JSON parsing
JsonError == [t |-> "error", fields |-> <<>>]
\* json.loads on a text of the token alphabet
JsonLoads(text) ==
    IF text = ListJson THEN [t |-> "list", fields |-> <<>>]
    ELSE IF /\ Len(text) >= 2
            /\ text[1] = "{"
            /\ text[Len(text)] = "}"
            /\ \A i \in 2..(Len(text) - 1) : text[i] \in FieldTokens
         THEN [t |-> "obj", fields |-> SubSeq(text, 2, Len(text) - 1)]
         ELSE JsonError

\* str.find / str.rfind: 0-based index, -1 when absent
Find(text, c) ==
    LET hits == {i \in 1..Len(text) : text[i] = c}
    IN  IF hits = {} THEN -1
        ELSE (CHOOSE i \in hits : \A j \in hits : i <= j) - 1
RFind(text, c) ==
    LET hits == {i \in 1..Len(text) : text[i] = c}
    IN  IF hits = {} THEN -1
        ELSE (CHOOSE i \in hits : \A j \in hits : i >= j) - 1
\* text[start:end]
Slice(text, start, end) == SubSeq(text, start + 1, end)

DefaultGoalData == [t |-> "obj", fields |-> <<"P0", "D0", "T0", "O0">>]

\* _parse_json_safe as it would be without the extraction of lines 573-577
ParseJsonSafeDirectOnly(text) ==
    LET direct == JsonLoads(text)
    IN  IF direct # JsonError THEN direct ELSE DefaultGoalData
\* LangGraphAIService._parse_json_safe
ParseJsonSafe(text) ==
    LET direct == JsonLoads(text)
        start == Find(text, "{")
        end == RFind(text, "}") + 1
        inner == IF start # -1 /\ end > start
                 THEN JsonLoads(Slice(text, start, end))
                 ELSE JsonError
    IN  IF direct # JsonError THEN direct
        ELSE IF inner # JsonError THEN inner
        ELSE DefaultGoalData

\* goal_data[key]: KeyError / TypeError when absent or not an object
HasKey(data, key) ==
    /\ data.t = "obj"
    /\ \E i \in 1..Len(data.fields) : FieldKey(data.fields[i]) = key
GetField(data, key) ==
    data.fields[CHOOSE i \in 1..Len(data.fields) : FieldKey(data.fields[i]) = key]
GoalKeys == {"primary_goal", "domains", "timeframe", "desired_outcomes"}
\* Goal(...) in identify_goals_node builds without KeyError, TypeError or
\* ValidationError
GoalBuilds(data) ==
    /\ \A k \in GoalKeys : HasKey(data, k)
    /\ \A k \in GoalKeys : FieldWellTyped(GetField(data, k))

\* ------------------------------------------------------------- state
VARIABLES
    users,               \* users table: set of internal_user_id
    sessions,            \* sessions table: session_token -> [user, data]
    goals,               \* goals table, in insertion order
    idCounter,           \* SecurityManager._internal_id_counter
    last_request_time,   \* LangGraphAIService.last_request_time
    daily_request_count, \* LangGraphAIService.daily_request_count
    last_reset_time,     \* LangGraphAIService.last_reset_time (a date)
    today,               \* datetime.now().date()
    pc,                  \* where each turn stands
    st,                  \* each turn's AgentState
    inv,                 \* each turn's frame of _make_api_call_with_retry
    wake,                \* when each turn's asyncio.sleep ends
    past_goals,          \* analyze_input_node's local past_goals
    executed,            \* the stage bodies each turn has run, in order
    turns,               \* process_message calls so far
    tokens,              \* session tokens the clients hold
    turnsLeft,           \* calls the callers will still make
    faultsLeft,          \* failures the environment will still inject
    storeFaults,         \* whether the database and vector store can fail
    callGap,             \* how long after the call before it that one started
    initial_state,       \* process_message's local initial_state
    raised,              \* str(e) of the exception ainvoke raised, or NoText
    history_result,      \* what get_session_history last returned
    users_file,          \* users.json: the user_data records, in dict order
    tokens_generated,    \* how many tokens generate_token has produced
    issued,              \* per username, the tokens its client was sent
    fileFaultsLeft,      \* failing reads of users.json still to come
    http_response,       \* the HTTP service's last response
    sessions_file,       \* sessions.json: session_id -> session_info
    goals_file,          \* goals.json: goal_id -> goal_data
    checkpoint           \* MemorySaver: per thread_id, the channels last saved

storeVars == <<users, sessions, goals, idCounter>>
wrapperVars == <<last_request_time, daily_request_count, last_reset_time>>
clockVars == <<today>>
turnVars == <<pc, st, inv, wake, past_goals, executed, turns, tokens>>
envVars == <<turnsLeft, faultsLeft, storeFaults>>
facadeVars == <<initial_state, raised, history_result>>
coachVars == <<sessions_file, goals_file>>
authVars == <<users_file, tokens_generated, issued, fileFaultsLeft,
              http_response, coachVars>>
vars == <<storeVars, wrapperVars, clockVars, turnVars, callGap, envVars,
          facadeVars, authVars, checkpoint>>

\* what the checkpointer holds of a state: the channel the input of
\* process_message does not write (user_id) and processing_errors
Saved(state) ==
    [user_id |-> state.user_id, processing_errors |-> state.processing_errors]
\* the checkpointer saves the channels under the turn's thread_id when the
\* turn has passed to its next node or to END
Checkpoint(p) ==
    checkpoint' =
        IF pc'[p] # pc[p]
           /\ pc'[p] \notin {"idle", "RAISED", "pacing_sleep", "backoff_sleep"}
        THEN [t \in DOMAIN checkpoint \cup {st'[p].session_token} |->
                 IF t = st'[p].session_token THEN Saved(st'[p])
                 ELSE checkpoint[t]]
        ELSE checkpoint

\* ------------------------------------------------------------- store
SessionExists(table, token) == token \in DOMAIN table

\* get_or_create_user_for_session as it would be if an unlinked token were
\* given to a user that exists already instead of a new one
GetOrCreateUserInSharingUser(users_t, sessions_t, idc, token, fault) ==
    LET linked == SessionExists(sessions_t, token) /\ sessions_t[token].user # NoId
        internal_user_id ==
            IF users_t = {} THEN GenerateInternalId("user", idc)
            ELSE CHOOSE u \in users_t : TRUE
        fallback(n, u) ==
            [user_id |-> GenerateInternalId("user_fallback", idc + n),
             users |-> u, sessions |-> sessions_t, idCounter |-> idc + n + 1]
        linkedSessions ==
            IF SessionExists(sessions_t, token)
            THEN [sessions_t EXCEPT ![token].user = internal_user_id]
            ELSE sessions_t @@
                 (token :> [user |-> internal_user_id,
                            data |-> EncryptData([conversation_history |-> <<>>])])
    IN  IF fault = "query" THEN fallback(0, users_t)
        ELSE IF linked
        THEN [user_id |-> sessions_t[token].user, users |-> users_t,
              sessions |-> sessions_t, idCounter |-> idc]
        ELSE IF fault = "user_commit" THEN fallback(1, users_t)
        ELSE IF fault = "link_commit"
        THEN fallback(1, users_t \cup {internal_user_id})
        ELSE [user_id |-> internal_user_id,
              users |-> users_t \cup {internal_user_id},
              sessions |-> linkedSessions, idCounter |-> idc + 1]
\* SecurityManager.get_or_create_user_for_session with the database failing
\* at `fault`: "none", "query" (line 104), "user_commit" (line 112) or
\* "link_commit" (lines 117 / 127). The result carries the returned id and
\* the tables and the id counter afterwards.
GetOrCreateUserIn(users_t, sessions_t, idc, token, fault) ==
    LET linked == SessionExists(sessions_t, token) /\ sessions_t[token].user # NoId
        internal_user_id == GenerateInternalId("user", idc)
        fallback(n, u) ==
            [user_id |-> GenerateInternalId("user_fallback", idc + n),
             users |-> u, sessions |-> sessions_t, idCounter |-> idc + n + 1]
        linkedSessions ==
            IF SessionExists(sessions_t, token)
            THEN [sessions_t EXCEPT ![token].user = internal_user_id]
            ELSE sessions_t @@
                 (token :> [user |-> internal_user_id,
                            data |-> EncryptData([conversation_history |-> <<>>])])
    IN  IF fault = "query" THEN fallback(0, users_t)
        ELSE IF linked
        THEN [user_id |-> sessions_t[token].user, users |-> users_t,
              sessions |-> sessions_t, idCounter |-> idc]
        ELSE IF fault = "user_commit" THEN fallback(1, users_t)
        ELSE IF fault = "link_commit"
        THEN fallback(1, users_t \cup {internal_user_id})
        ELSE [user_id |-> internal_user_id,
              users |-> users_t \cup {internal_user_id},
              sessions |-> linkedSessions, idCounter |-> idc + 1]
\* the call on the store as it is
GetOrCreateUserForSession(token, fault) ==
    GetOrCreateUserIn(users, sessions, idCounter, token, fault)

\* load_goals_for_user as it would be without the filter of line 282
LoadGoalsOfAnyUser(user_id, fault) ==
    IF fault = "query" THEN <<>>
    ELSE [i \in 1..Len(goals) |-> DecryptData(goals[i].encrypted_goal_data)]
\* LangGraphMemoryManager.load_goals_for_user: the decrypted payloads of the
\* rows filtered by user_internal_id; [] when the query fails
LoadGoalsForUser(user_id, fault) ==
    LET rows == SelectSeq(goals, LAMBDA g : g.user_internal_id = user_id)
    IN  IF fault = "query" THEN <<>>
        ELSE [i \in 1..Len(rows) |-> DecryptData(rows[i].encrypted_goal_data)]

\* save_goal_for_user as it would be if it updated the user's latest goal
\* row in place instead of adding a row
SaveGoalForUserReplacing(goal_dict, user_id, fault, idc) ==
    LET new_goal ==
            [internal_goal_id |-> GenerateInternalId("goal", idc),
             session_token |-> goal_dict.session_token,
             user_internal_id |-> user_id,
             encrypted_goal_data |-> EncryptData(goal_dict)]
        own == {i \in DOMAIN goals : goals[i].user_internal_id = user_id}
        latest == CHOOSE i \in own : \A j \in own : j <= i
    IN  IF fault = "commit"
        THEN [ok |-> FALSE, goals |-> goals, idCounter |-> idc + 1]
        ELSE [ok |-> TRUE,
              goals |-> IF own = {} THEN Append(goals, new_goal)
                        ELSE [goals EXCEPT ![latest] = new_goal],
              idCounter |-> idc + 1]
\* save_goal_for_user as it would be without the link of line 313
SaveGoalForUserUnlinked(goal_dict, user_id, fault, idc) ==
    LET new_goal ==
            [internal_goal_id |-> GenerateInternalId("goal", idc),
             session_token |-> goal_dict.session_token,
             user_internal_id |-> NoId,
             encrypted_goal_data |-> EncryptData(goal_dict)]
    IN  IF fault = "commit"
        THEN [ok |-> FALSE, goals |-> goals, idCounter |-> idc + 1]
        ELSE [ok |-> TRUE, goals |-> Append(goals, new_goal),
              idCounter |-> idc + 1]
\* LangGraphMemoryManager.save_goal_for_user: [ok, goals, idCounter]
SaveGoalForUser(goal_dict, user_id, fault, idc) ==
    LET new_goal ==
            [internal_goal_id |-> GenerateInternalId("goal", idc),
             session_token |-> goal_dict.session_token,
             user_internal_id |-> user_id,
             encrypted_goal_data |-> EncryptData(goal_dict)]
    IN  IF fault = "commit"
        THEN [ok |-> FALSE, goals |-> goals, idCounter |-> idc + 1]
        ELSE [ok |-> TRUE, goals |-> Append(goals, new_goal),
              idCounter |-> idc + 1]

\* save_session_state as it would be if it stored the turn's own entry only
SaveSessionStateLastEntryOnly(table, state, fault) ==
    LET token == state.session_token
        h == state.conversation_history
        encrypted_data ==
            EncryptData([conversation_history |->
                             IF h = <<>> THEN h ELSE <<h[Len(h)]>>])
        upserted ==
            IF SessionExists(table, token)
            THEN [table EXCEPT ![token].data = encrypted_data]
            ELSE table @@ (token :> [user |-> NoId, data |-> encrypted_data])
    IN  [ok |-> fault # "chroma",
         sessions |-> IF fault = "commit" THEN table ELSE upserted]
\* save_session_state as it would be if its update had no filter on the
\* session token: every row takes the turn's payload
SaveSessionStateUnfiltered(table, state, fault) ==
    LET token == state.session_token
        encrypted_data ==
            EncryptData([conversation_history |-> state.conversation_history])
        updated == [t \in DOMAIN table |->
                       [table[t] EXCEPT !.data = encrypted_data]]
        upserted ==
            IF SessionExists(table, token)
            THEN updated
            ELSE updated @@ (token :> [user |-> NoId, data |-> encrypted_data])
    IN  [ok |-> fault # "chroma",
         sessions |-> IF fault = "commit" THEN table ELSE upserted]
\* LangGraphMemoryManager.save_session_state on the sessions table `table`:
\* [ok, sessions]. The database
\* upsert has its own try/except (lines 339-364); only a failure of the
\* vector-store upsert (line 374) makes the method return False.
SaveSessionState(table, state, fault) ==
    LET token == state.session_token
        encrypted_data ==
            EncryptData([conversation_history |-> state.conversation_history])
        upserted ==
            IF SessionExists(table, token)
            THEN [table EXCEPT ![token].data = encrypted_data]
            ELSE table @@ (token :> [user |-> NoId, data |-> encrypted_data])
    IN  [ok |-> fault # "chroma",
         sessions |-> IF fault = "commit" THEN table ELSE upserted]

\* how load_session_state can fail: the query (line 391), decrypt_data
\* (line 395: a payload written under another key, or damaged) or
\* json.loads (line 396)
LoadFaults == {"query", "decrypt", "deserialize"}
\* load_session_state as it would be with only the query guarded: a payload
\* that cannot be read is taken as it is
LoadSessionStateUncaught(table, token, fault, idc) ==
    IF ~SessionExists(table, token) \/ fault = "query"
    THEN [state |-> NoState, idCounter |-> idc]
    ELSE LET session_record == table[token]
             payload == DecryptData(session_record.data)
             hasUser == session_record.user # NoId
         IN  [state |->
                 [user_message |-> <<>>,
                  session_token |-> token,
                  user_id |-> IF hasUser THEN session_record.user
                              ELSE GenerateInternalId("user", idc),
                  current_step |-> "resume",
                  analysis_complete |-> FALSE,
                  goal_identified |-> FALSE,
                  plan_generated |-> FALSE,
                  current_goal |-> NoGoal,
                  conversation_history |-> payload.conversation_history,
                  user_analysis |-> NoText,
                  goal_assessment |-> JsonError,
                  comprehensive_plan |-> NoText,
                  response_message |-> NoText,
                  processing_errors |-> <<>>],
              idCounter |-> IF hasUser THEN idc ELSE idc + 1]
\* LangGraphMemoryManager.load_session_state on the sessions table `table`:
\* the minimal state built from the session row, or NoState;
\* [state, idCounter]
LoadSessionState(table, token, fault, idc) ==
    IF ~SessionExists(table, token) \/ fault \in LoadFaults
    THEN [state |-> NoState, idCounter |-> idc]
    ELSE LET session_record == table[token]
             payload == DecryptData(session_record.data)
             hasUser == session_record.user # NoId
         IN  [state |->
                 [user_message |-> <<>>,
                  session_token |-> token,
                  user_id |-> IF hasUser THEN session_record.user
                              ELSE GenerateInternalId("user", idc),
                  current_step |-> "resume",
                  analysis_complete |-> FALSE,
                  goal_identified |-> FALSE,
                  plan_generated |-> FALSE,
                  current_goal |-> NoGoal,
                  conversation_history |-> payload.conversation_history,
                  user_analysis |-> NoText,
                  goal_assessment |-> JsonError,
                  comprehensive_plan |-> NoText,
                  response_message |-> NoText,
                  processing_errors |-> <<>>],
              idCounter |-> IF hasUser THEN idc ELSE idc + 1]

\* the conversation history persisted for `token` in `table`
PersistedHistory(table, token) ==
    IF SessionExists(table, token)
    THEN DecryptData(table[token].data).conversation_history
    ELSE <<>>

\* ----------------------------------------------------------- wrapper
\* what generate_content raises, as the words of str(e).lower()
QuotaError == <<"429", "quota", "exceeded">>
ServerError == <<"503", "service", "unavailable">>
OtherError == <<"connection", "reset">>
ApiErrors == {QuotaError, ServerError, OtherError}
\* what _rate_limit_check raises at the ceiling (line 458)
DailyLimitReached ==
    <<"daily", "api", "limit", "reached", "try", "again", "tomorrow",
      "upgrade", "paid", "tier">>

Contains(error_str, word) == \E i \in 1..Len(error_str) : error_str[i] = word
\* the if / elif / else of lines 480-495
ErrorClass(error_str) ==
    IF \/ Contains(error_str, "429")
       \/ Contains(error_str, "quota")
       \/ Contains(error_str, "rate limit")
    THEN "rate"
    ELSE IF Contains(error_str, "500") \/ Contains(error_str, "503")
         THEN "server"
         ELSE "unknown"

Pow2(n) == IF n = 0 THEN 1 ELSE IF n = 1 THEN 2 ELSE 4
\* wait_time of lines 481 / 487
BackoffWait(class, attempt) ==
    IF class = "rate" THEN Pow2(attempt) * RateBackoffBase
    ELSE Pow2(attempt) * ServerBackoffBase
\* the two exhaustion texts exchanged
ExhaustedMsgSwapped(class) ==
    IF class = "rate" THEN TechnicalMsg ELSE HighDemandMsg
\* the text returned when the last attempt failed (lines 484 / 490)
ExhaustedMsg(class) == IF class = "rate" THEN HighDemandMsg ELSE TechnicalMsg

\* the frame of one _make_api_call_with_retry call, as a stage starts it
NewFrame(stage) ==
    [stage |-> stage, attempt |-> 0, calls |-> 0, backoffs |-> 0,
     pacing |-> 0, last_class |-> "none", ret |-> NoText, returned |-> FALSE]
IdleFrame == NewFrame("none")

\* return <text> of _make_api_call_with_retry
Returns(frame, text, class) ==
    [inv |-> [frame EXCEPT !.ret = text, !.returned = TRUE,
                           !.last_class = class],
     wake |-> 0]

\* the except branch as it would be with the last-attempt tests of lines
\* 483 / 489 off by one
OnExceptionOneMore(frame, error_str, t) ==
    LET class == ErrorClass(error_str)
    IN  IF class = "unknown" THEN Returns(frame, UnexpectedMsg, class)
        ELSE IF frame.attempt = MaxRetries
        THEN Returns(frame, ExhaustedMsg(class), class)
        ELSE [inv |-> [frame EXCEPT !.last_class = class,
                                    !.backoffs = @ + 1],
              wake |-> t + BackoffWait(class, frame.attempt)]
\* the except branch of _make_api_call_with_retry for an exception whose
\* text is error_str, raised at time t in attempt frame.attempt
OnException(frame, error_str, t) ==
    LET class == ErrorClass(error_str)
    IN  IF class = "unknown" THEN Returns(frame, UnexpectedMsg, class)
        ELSE IF frame.attempt = MaxRetries - 1
        THEN Returns(frame, ExhaustedMsg(class), class)
        ELSE [inv |-> [frame EXCEPT !.last_class = class,
                                    !.backoffs = @ + 1],
              wake |-> t + BackoffWait(class, frame.attempt)]

\* the outcomes of one generate_content call made for `stage`
Completions(stage) ==
    IF stage = "identify_goals" THEN GoalTexts ELSE {PlainText}
CallOutcomes(stage) ==
    {[ok |-> TRUE, text |-> t, err |-> <<>>] : t \in Completions(stage)}
    \cup {[ok |-> FALSE, text |-> NoText, err |-> e] : e \in ApiErrors}

\* the date test as it would be with >= for >: every check resets
ResetDueSameDay(current_date, last_reset) == current_date >= last_reset
\* the date test of line 452
ResetDue(current_date, last_reset) == current_date > last_reset
\* the ceiling test as it would be with > for >=
AboveDailyLimit(count) == count > DailyLimit
\* the ceiling test of line 457
AtDailyLimit(count) == count >= DailyLimit
\* the pacing test of line 462
MustWait(time_since_last) == time_since_last < MinInterval
\* a wait one tick short of the interval
PacingWaitShort(time_since_last) == MinInterval - time_since_last - 1
\* wait_time of line 463
PacingWait(time_since_last) == MinInterval - time_since_last

\* ---------------------------------------------------------- workflow
\* should_continue_to_goals as it would be if the fallback text of an
\* unknown-class failure counted as a processing error
ShouldContinueToGoalsStrict(state) ==
    IF state.user_analysis = UnexpectedMsg THEN "error_handling"
    ELSE IF state.analysis_complete /\ state.processing_errors = <<>>
    THEN "identify_goals"
    ELSE IF state.processing_errors # <<>> THEN "error_handling"
    ELSE "analyze_input"
\* should_continue_to_goals as it would be if it named the stage after the
\* next one
ShouldContinueToGoalsSkipping(state) ==
    IF state.analysis_complete /\ state.processing_errors = <<>>
    THEN "generate_plan"
    ELSE IF state.processing_errors # <<>> THEN "error_handling"
    ELSE "analyze_input"
\* the conditional edges
ShouldContinueToGoals(state) ==
    IF state.analysis_complete /\ state.processing_errors = <<>>
    THEN "identify_goals"
    ELSE IF state.processing_errors # <<>> THEN "error_handling"
    ELSE "analyze_input"
\* should_continue_to_plan as it would be if the flag alone decided the
\* advance, errors or not
ShouldContinueToPlanFlagFirst(state) ==
    IF state.goal_identified THEN "generate_plan"
    ELSE IF state.processing_errors # <<>> THEN "error_handling"
    ELSE "identify_goals"
ShouldContinueToPlan(state) ==
    IF state.goal_identified /\ state.processing_errors = <<>>
    THEN "generate_plan"
    ELSE IF state.processing_errors # <<>> THEN "error_handling"
    ELSE "identify_goals"
ShouldContinueToFinalize(state) ==
    IF state.plan_generated /\ state.processing_errors = <<>>
    THEN "finalize_response"
    ELSE IF state.processing_errors # <<>> THEN "error_handling"
    ELSE "generate_plan"
\* add_conditional_edges: the edge function of each stage
Route(stage, state) ==
    CASE stage = "analyze_input" -> ShouldContinueToGoals(state)
      [] stage = "identify_goals" -> ShouldContinueToPlan(state)
      [] stage = "generate_plan" -> ShouldContinueToFinalize(state)

\* the user's n-th message
Message(n) == <<"message", n>>
FaultCost(fault) == IF fault = "none" THEN 0 ELSE 1

\* initial_state of process_message
InitialState(user_message, session_token) ==
    [user_message |-> user_message,
     session_token |-> session_token,
     user_id |-> NoId,
     current_step |-> "start",
     analysis_complete |-> FALSE,
     goal_identified |-> FALSE,
     plan_generated |-> FALSE,
     current_goal |-> NoGoal,
     conversation_history |-> <<>>,
     user_analysis |-> NoText,
     goal_assessment |-> JsonError,
     comprehensive_plan |-> NoText,
     response_message |-> NoText,
     processing_errors |-> <<>>]
BlankState == InitialState(<<>>, NoId)

\* the except branch shared by the stage bodies
RecordError(state, description) ==
    [state EXCEPT !.processing_errors = Append(@, description),
                  !.current_step = "error_handling"]

\* analyze_input_node as it would be without line 646
AnalyzeInputResumeUnflagged(state, analysis) ==
    [state EXCEPT
       !.user_analysis = analysis,
       !.current_step = "identifying_goals",
       !.conversation_history =
           Append(@, [user_message |-> state.user_message,
                      analysis |-> analysis])]
\* analyze_input_node from the wrapper's return (lines 645-657)
AnalyzeInputResume(state, analysis) ==
    [state EXCEPT
       !.user_analysis = analysis,
       !.analysis_complete = TRUE,
       !.current_step = "identifying_goals",
       !.conversation_history =
           Append(@, [user_message |-> state.user_message,
                      analysis |-> analysis])]

\* goal.dict() of a Goal built from goal_data
GoalDict(goal_data, session_token, internal_id) ==
    [internal_id |-> internal_id,
     session_token |-> session_token,
     primary_goal |-> FieldValue(GetField(goal_data, "primary_goal")),
     domains |-> FieldValue(GetField(goal_data, "domains")),
     timeframe |-> FieldValue(GetField(goal_data, "timeframe")),
     desired_outcomes |-> FieldValue(GetField(goal_data, "desired_outcomes")),
     status |-> "analyzing",
     progress |-> 0]

\* identify_goals_node from the wrapper's return: _parse_json_safe, Goal(...)
IdentifyGoalsResume(state, text, idc) ==
    LET goal_data == ParseJsonSafe(text)
    IN  IF GoalBuilds(goal_data)
        THEN [state EXCEPT
                !.goal_assessment = goal_data,
                !.current_goal =
                    GoalDict(goal_data, state.session_token,
                             GenerateInternalId("goal", idc)),
                !.goal_identified = TRUE,
                !.current_step = "generating_plan"]
        ELSE RecordError(state, "Goal identification failed")
\* Goal(...) is reached, and its default_factory draws an id, once the four
\* keys were read from goal_data
GoalConstructed(text) ==
    \A k \in GoalKeys : HasKey(ParseJsonSafe(text), k)

\* generate_plan_node from the wrapper's return
\* generate_plan_node as it would be without line 718: the plan is stored
\* and the flag is left unset
GeneratePlanResumeUnflagged(state, plan) ==
    [state EXCEPT !.comprehensive_plan = plan,
                  !.current_step = "finalizing_response"]
GeneratePlanResume(state, plan) ==
    [state EXCEPT !.comprehensive_plan = plan,
                  !.plan_generated = TRUE,
                  !.current_step = "finalizing_response"]

\* the stage body that awaited the wrapper, from the wrapper's return to its
\* own return
StageResume(stage, state, text, idc) ==
    CASE stage = "analyze_input" -> AnalyzeInputResume(state, text)
      [] stage = "identify_goals" -> IdentifyGoalsResume(state, text, idc)
      [] stage = "generate_plan" -> GeneratePlanResume(state, text)

\* ------------------------------------------------- wrapper, continued
\* turn p's attempt ended as `next` says (Returns or OnException): either
\* the wrapper returned and the stage body runs to its end and the edge
\* function picks the next stage, or the turn sleeps before the next attempt
Settle(p, next) ==
    /\ inv' = [inv EXCEPT ![p] = next.inv]
    /\ IF next.inv.returned
       THEN LET stage == next.inv.stage
                state == StageResume(stage, st[p], next.inv.ret, idCounter)
                drawn == stage = "identify_goals"
                         /\ GoalConstructed(next.inv.ret)
            IN  /\ st' = [st EXCEPT ![p] = state]
                /\ idCounter' = IF drawn THEN idCounter + 1 ELSE idCounter
                /\ pc' = [pc EXCEPT ![p] = Route(stage, state)]
       ELSE /\ pc' = [pc EXCEPT ![p] = "backoff_sleep"]
            /\ UNCHANGED <<st, idCounter>>

\* lines 467-469 and 476-477: the timestamp and the counters are updated,
\* then the blocking call runs for `dur` ticks and ends with `outcome`
AdmitAndCall(p, frame, count, outcome, dur, spent) ==
    LET called == [frame EXCEPT !.calls = @ + 1]
        next == IF outcome.ok THEN Returns(called, outcome.text, "none")
                ELSE OnException(called, outcome.err, Now + dur)
        cost == spent + (IF outcome.ok THEN 0 ELSE 1)
    IN  /\ cost <= faultsLeft
        /\ faultsLeft' = faultsLeft - cost
        /\ last_request_time' = Age(Now, dur)
        /\ daily_request_count' = count + 1
        /\ callGap' = Now - last_request_time
        /\ Settle(p, next)
        /\ wake' = [q \in Procs |->
                      IF q = p THEN Due(next.wake, dur) ELSE Due(wake[q], dur)]

\* one attempt of _make_api_call_with_retry with frame `frame`, from
\* `await self._rate_limit_check()` to the turn's next suspension; `spent`
\* counts the store failures the stage body met before it
Attempt(p, frame, spent) ==
    LET reset == ResetDue(today, last_reset_time)
        count == IF reset THEN 0 ELSE daily_request_count
        time_since_last == Now - last_request_time
    IN  /\ last_reset_time' = IF reset THEN today ELSE last_reset_time
        /\ IF AtDailyLimit(count)
           THEN LET next == OnException(frame, DailyLimitReached, Now)
                IN  /\ Settle(p, next)
                    /\ wake' = [wake EXCEPT ![p] = next.wake]
                    /\ daily_request_count' = count
                    /\ faultsLeft' = faultsLeft - spent
                    /\ UNCHANGED <<last_request_time, callGap>>
           ELSE IF MustWait(time_since_last)
           THEN /\ pc' = [pc EXCEPT ![p] = "pacing_sleep"]
                /\ inv' = [inv EXCEPT ![p] = [frame EXCEPT !.pacing = @ + 1]]
                /\ wake' = [wake EXCEPT
                              ![p] = Now + PacingWait(time_since_last)]
                /\ daily_request_count' = count
                /\ faultsLeft' = faultsLeft - spent
                /\ UNCHANGED <<last_request_time, callGap, st, idCounter, authVars>>
           ELSE \E outcome \in CallOutcomes(frame.stage),
                   dur \in 0..MaxCallTicks :
                    AdmitAndCall(p, frame, count, outcome, dur, spent)

\* the rest of _rate_limit_check after asyncio.sleep(wait_time), and the call
PacingWake(p) ==
    /\ pc[p] = "pacing_sleep"
    /\ Now >= wake[p]
    /\ \E outcome \in CallOutcomes(inv[p].stage), dur \in 0..MaxCallTicks :
           AdmitAndCall(p, inv[p], daily_request_count, outcome, dur, 0)
    /\ UNCHANGED <<users, sessions, goals, last_reset_time, today, past_goals,
                   executed, turns, tokens, turnsLeft, storeFaults,
                   facadeVars, authVars>>
    /\ Checkpoint(p)

\* asyncio.sleep(wait_time) of lines 485 / 491 ends: the next attempt
BackoffWake(p) ==
    /\ pc[p] = "backoff_sleep"
    /\ Now >= wake[p]
    /\ Attempt(p, [inv[p] EXCEPT !.attempt = @ + 1], 0)
    /\ UNCHANGED <<users, sessions, goals, today, past_goals, executed,
                   turns, tokens, turnsLeft, storeFaults,
                   facadeVars, authVars>>
    /\ Checkpoint(p)

\* time passes until a sleeping turn's timer is due
AdvanceTime ==
    /\ \E p \in Procs :
           /\ pc[p] \in {"pacing_sleep", "backoff_sleep"}
           /\ wake[p] > Now
           /\ LET d == wake[p] - Now
              IN  /\ wake' = [q \in Procs |-> Due(wake[q], d)]
                  /\ last_request_time' = Age(last_request_time, d)
    /\ UNCHANGED <<storeVars, daily_request_count, last_reset_time, today,
                   pc, st, inv, past_goals, executed, turns, tokens,
                   callGap, envVars,
                   facadeVars, authVars>>
    /\ UNCHANGED checkpoint

\* nothing runs for MinInterval or longer
IdleTime ==
    /\ \A p \in Procs : pc[p] = "idle"
    /\ last_request_time > Now - MinInterval
    /\ last_request_time' = Now - MinInterval
    /\ UNCHANGED <<storeVars, daily_request_count, last_reset_time, today,
                   turnVars, callGap, envVars,
                   facadeVars, authVars>>
    /\ UNCHANGED checkpoint

\* midnight passes: datetime.now().date() of line 451 is a new date
NewDay ==
    /\ today < MaxDays
    /\ today' = today + 1
    /\ UNCHANGED <<storeVars, wrapperVars, turnVars, callGap, envVars,
                   facadeVars, authVars>>
    /\ UNCHANGED checkpoint

\* ------------------------------------------------------ stage bodies
\* the environment can make `cost` store operations fail now
CanFail(cost) == cost = 0 \/ (storeFaults /\ cost <= faultsLeft)
\* the nodes of the compiled workflow, as values of pc
Stages == {"start_session", "analyze_input", "identify_goals",
           "generate_plan", "finalize_response", "error_handling"}

\* process_message up to the start of the workflow; supplied = NoId when the
\* caller gives no token
\* ainvoke's input on a thread as it would be if processing_errors were a
\* channel with an add reducer: the input is appended to what was saved
ApplyInputAddingErrors(saved, thread_id, input) ==
    IF thread_id \in DOMAIN saved
    THEN [input EXCEPT
            !.user_id = saved[thread_id].user_id,
            !.processing_errors = saved[thread_id].processing_errors \o @]
    ELSE input
\* ainvoke(initial_state, config) on the thread `thread_id`: every channel
\* the input names takes the input's value, the others (user_id) keep the
\* value saved for the thread
ApplyInput(saved, thread_id, input) ==
    IF thread_id \in DOMAIN saved
    THEN [input EXCEPT !.user_id = saved[thread_id].user_id]
    ELSE input
ProcessMessage(p, user_message, supplied) ==
    /\ pc[p] = "idle"
    /\ turnsLeft > 0
    /\ turnsLeft' = turnsLeft - 1
    /\ LET minted == supplied = NoId
           session_token ==
               IF minted THEN GenerateInternalId("session", idCounter)
               ELSE supplied
       IN  /\ initial_state' =
                  [initial_state EXCEPT
                     ![p] = InitialState(user_message, session_token)]
           /\ st' = [st EXCEPT
                       ![p] = ApplyInput(checkpoint, session_token,
                                         InitialState(user_message,
                                                      session_token))]
           /\ idCounter' = IF minted THEN idCounter + 1 ELSE idCounter
    /\ pc' = [pc EXCEPT ![p] = "start_session"]
    /\ executed' = [executed EXCEPT ![p] = <<>>]
    /\ turns' = turns + 1
    /\ history_result' = NoResult
    /\ UNCHANGED <<users, sessions, goals, wrapperVars, clockVars, inv, wake,
                   past_goals, tokens, callGap, faultsLeft, storeFaults,
                   raised, authVars>>
    /\ Checkpoint(p)

\* the merge as it would be without line 620, which puts the turn's message
\* back after the update
MergeLoadedStateStaleMessage(state, existing_state) ==
    [existing_state EXCEPT
       !.user_id = IF @ = NoId THEN state.user_id ELSE @]
\* start_session_node merging the loaded state into the turn's state (lines
\* 616-622): update, then restore user_message
MergeLoadedState(state, existing_state) ==
    [existing_state EXCEPT
       !.user_message = state.user_message,
       !.user_id = IF @ = NoId THEN state.user_id ELSE @]

\* start_session_node. userFault "connect" is SessionLocal() failing before
\* get_or_create_user_for_session's try (line 101), which start_session's own
\* except (lines 607-609) answers with a fallback id. The token is always
\* set by process_message, so lines 599-602 do not run.
StartSessionNode(p) ==
    /\ pc[p] = "start_session"
    /\ \E userFault \in {"none", "query", "user_commit", "link_commit", "connect"},
          loadFault \in {"none"} \cup LoadFaults :
         LET cost == FaultCost(userFault) + FaultCost(loadFault)
             token == st[p].session_token
             got == IF userFault = "connect"
                    THEN [user_id |-> GenerateInternalId("fallback_user", idCounter),
                          users |-> users, sessions |-> sessions,
                          idCounter |-> idCounter + 1]
                    ELSE GetOrCreateUserForSession(token, userFault)
             state1 == [st[p] EXCEPT !.user_id = got.user_id,
                                     !.current_step = "analyzing_input"]
             loaded == LoadSessionState(got.sessions, token, loadFault,
                                        got.idCounter)
             existing_state == loaded.state
             state2 == IF existing_state # NoState
                       THEN MergeLoadedState(state1, existing_state)
                       ELSE state1
         IN  /\ CanFail(cost)
             /\ faultsLeft' = faultsLeft - cost
             /\ st' = [st EXCEPT ![p] = state2]
             /\ users' = got.users
             /\ sessions' = got.sessions
             /\ idCounter' = loaded.idCounter
    /\ pc' = [pc EXCEPT ![p] = "analyze_input"]
    /\ executed' = [executed EXCEPT ![p] = Append(@, "start_session")]
    /\ UNCHANGED <<goals, wrapperVars, clockVars, inv, wake, past_goals,
                   turns, tokens, callGap, turnsLeft, storeFaults,
                   facadeVars, authVars>>
    /\ Checkpoint(p)

\* analyze_input_node to its first suspension. goalsFault "connect" is
\* SessionLocal() failing before load_goals_for_user's try (line 280): the
\* exception reaches the stage's except.
AnalyzeInputNode(p) ==
    /\ pc[p] = "analyze_input"
    /\ executed' = [executed EXCEPT ![p] = Append(@, "analyze_input")]
    /\ \E goalsFault \in {"none", "query", "connect"} :
         /\ CanFail(FaultCost(goalsFault))
         /\ IF goalsFault = "connect"
            THEN LET state == RecordError(st[p], "Analysis failed")
                 IN  /\ st' = [st EXCEPT ![p] = state]
                     /\ pc' = [pc EXCEPT ![p] = ShouldContinueToGoals(state)]
                     /\ faultsLeft' = faultsLeft - 1
                     /\ UNCHANGED <<inv, wake, past_goals, idCounter,
                                    wrapperVars, callGap, authVars>>
            ELSE /\ past_goals' =
                        [past_goals EXCEPT
                           ![p] = LoadGoalsForUser(st[p].user_id, goalsFault)]
                 /\ Attempt(p, NewFrame("analyze_input"),
                            FaultCost(goalsFault))
    /\ UNCHANGED <<users, sessions, goals, today, turns, tokens, turnsLeft,
                   storeFaults,
                   facadeVars, authVars>>
    /\ Checkpoint(p)

\* identify_goals_node to its first suspension (assess_goals)
IdentifyGoalsNode(p) ==
    /\ pc[p] = "identify_goals"
    /\ executed' = [executed EXCEPT ![p] = Append(@, "identify_goals")]
    /\ Attempt(p, NewFrame("identify_goals"), 0)
    /\ UNCHANGED <<users, sessions, goals, today, past_goals, turns, tokens,
                   turnsLeft, storeFaults,
                   facadeVars, authVars>>
    /\ Checkpoint(p)

\* generate_plan_node to its first suspension
GeneratePlanNode(p) ==
    /\ pc[p] = "generate_plan"
    /\ executed' = [executed EXCEPT ![p] = Append(@, "generate_plan")]
    /\ Attempt(p, NewFrame("generate_plan"), 0)
    /\ UNCHANGED <<users, sessions, goals, today, past_goals, turns, tokens,
                   turnsLeft, storeFaults,
                   facadeVars, authVars>>
    /\ Checkpoint(p)

\* response_parts of finalize_response_node
ComposeResponse(state) ==
    (IF state.user_analysis # NoText
     THEN <<"## Understanding Your Situation">> \o state.user_analysis
     ELSE <<>>)
    \o (IF state.comprehensive_plan # NoText
        THEN <<"## Your Personalized Action Plan">> \o state.comprehensive_plan
        ELSE <<>>)
    \o (IF state.current_goal # NoGoal
        THEN <<"## Goal Summary">> \o state.current_goal.primary_goal
             \o state.current_goal.timeframe \o state.current_goal.domains
        ELSE <<>>)
    \o FooterText

\* finalize_response_node. goalFault "connect" is SessionLocal() failing
\* before save_goal_for_user's try (line 302): the exception reaches the
\* stage's except, after the session was saved.
FinalizeResponseNode(p) ==
    /\ pc[p] = "finalize_response"
    /\ executed' = [executed EXCEPT ![p] = Append(@, "finalize_response")]
    /\ \E sessionFault \in {"none", "commit", "chroma"},
          goalFault \in {"none", "commit", "connect"} :
         LET hasGoal == st[p].current_goal # NoGoal
             cost == FaultCost(sessionFault)
                     + (IF hasGoal THEN FaultCost(goalFault) ELSE 0)
             state == [st[p] EXCEPT !.response_message = ComposeResponse(st[p]),
                                    !.current_step = "complete"]
             savedSession == SaveSessionState(sessions, state, sessionFault)
             savedGoal == SaveGoalForUser(state.current_goal, state.user_id,
                                          goalFault, idCounter)
         IN  /\ CanFail(cost)
             /\ faultsLeft' = faultsLeft - cost
             /\ sessions' = savedSession.sessions
             /\ IF hasGoal /\ goalFault = "connect"
                THEN /\ st' = [st EXCEPT ![p] =
                                 RecordError(state, "Response finalization failed")]
                     /\ UNCHANGED <<goals, idCounter, authVars>>
                ELSE IF hasGoal
                THEN /\ st' = [st EXCEPT ![p] = state]
                     /\ goals' = savedGoal.goals
                     /\ idCounter' = savedGoal.idCounter
                ELSE /\ st' = [st EXCEPT ![p] = state]
                     /\ UNCHANGED <<goals, idCounter, authVars>>
    /\ pc' = [pc EXCEPT ![p] = "END"]
    /\ inv' = [inv EXCEPT ![p] = IdleFrame]
    /\ UNCHANGED <<users, wrapperVars, clockVars, wake, past_goals,
                   turns, tokens, callGap, turnsLeft, storeFaults,
                   facadeVars, authVars>>
    /\ Checkpoint(p)

\* the response as it would be if error_handling listed what it logs
ErrorResponseListingErrors(state) == ApologyMsg \o state.processing_errors
\* the response error_handling_node sets (lines 775-785)
ErrorResponse(state) == ApologyMsg

\* error_handling_node
ErrorHandlingNode(p) ==
    /\ pc[p] = "error_handling"
    /\ executed' = [executed EXCEPT ![p] = Append(@, "error_handling")]
    /\ st' = [st EXCEPT ![p].response_message = ErrorResponse(st[p]),
                        ![p].current_step = "complete"]
    /\ pc' = [pc EXCEPT ![p] = "END"]
    /\ inv' = [inv EXCEPT ![p] = IdleFrame]
    /\ UNCHANGED <<storeVars, wrapperVars, clockVars, wake, past_goals,
                   turns, tokens, callGap, envVars,
                   facadeVars, authVars>>
    /\ Checkpoint(p)

\* ainvoke raises instead of returning: an exception leaves the compiled
\* workflow (the engine or its checkpointer fails) while turn p is in a
\* stage. The workflow's working state is lost; process_message is left
\* with initial_state and the exception (line 929).
WorkflowRaises(p) ==
    /\ pc[p] \in Stages
    /\ faultsLeft >= 1
    /\ faultsLeft' = faultsLeft - 1
    /\ \E e \in EngineErrors : raised' = [raised EXCEPT ![p] = e]
    /\ pc' = [pc EXCEPT ![p] = "RAISED"]
    /\ st' = [st EXCEPT ![p] = initial_state[p]]
    /\ executed' = [executed EXCEPT ![p] = <<>>]
    /\ past_goals' = [past_goals EXCEPT ![p] = <<>>]
    /\ inv' = [inv EXCEPT ![p] = IdleFrame]
    /\ UNCHANGED <<storeVars, wrapperVars, clockVars, wake, turns, tokens,
                   callGap, turnsLeft, storeFaults, initial_state,
                   history_result, authVars>>
    /\ Checkpoint(p)

\* the dict process_message returns for the workflow's final state
ProcessMessageResult(state) ==
    [success |-> TRUE,
     response |-> state.response_message,
     session_token |-> state.session_token,
     current_step |-> state.current_step,
     goal_data |-> state.current_goal]

\* the except branch as it would be if it returned the session_token
\* argument, which is None when the caller supplied no token
ProcessMessageFailureOfArgument(initial, error_str) ==
    [success |-> FALSE,
     response |-> FacadeApologyMsg,
     session_token |-> NoId,
     error |-> error_str]
\* the dict process_message's except branch returns (lines 931-936) for the
\* exception whose text is error_str
ProcessMessageFailure(initial, error_str) ==
    [success |-> FALSE,
     response |-> FacadeApologyMsg,
     session_token |-> initial.session_token,
     error |-> error_str]

\* what process_message returns to the caller of turn p, at END or RAISED
ProcessMessageReturn(p) ==
    IF pc[p] = "RAISED" THEN ProcessMessageFailure(initial_state[p], raised[p])
    ELSE ProcessMessageResult(st[p])

\* the workflow reached END or raised: process_message returns (lines
\* 917-927 or 931-936) its result to the caller, who keeps the token; the
\* working state is dropped
ReturnResult(p) ==
    /\ pc[p] \in {"END", "RAISED"}
    /\ tokens' = tokens \cup {ProcessMessageReturn(p).session_token}
    /\ pc' = [pc EXCEPT ![p] = "idle"]
    /\ st' = [st EXCEPT ![p] = BlankState]
    /\ initial_state' = [initial_state EXCEPT ![p] = BlankState]
    /\ raised' = [raised EXCEPT ![p] = NoText]
    /\ executed' = [executed EXCEPT ![p] = <<>>]
    /\ past_goals' = [past_goals EXCEPT ![p] = <<>>]
    /\ UNCHANGED <<storeVars, wrapperVars, clockVars, inv, wake,
                   turns, callGap, envVars, history_result, authVars>>
    /\ Checkpoint(p)

\* a token no session was ever started with
UnknownToken == <<"session", -1>>

\* get_session_history as it would be if it read the history under a key
\* the loaded state does not have, and so returned the default []
GetSessionHistoryResultWrongKey(token, loadFault, goalsFault, error_str) ==
    LET state == LoadSessionState(sessions, token, loadFault, idCounter).state
    IN  IF state = NoState
        THEN [success |-> FALSE, message |-> <<"Session not found">>]
        ELSE IF goalsFault = "connect"
        THEN [success |-> FALSE, error |-> error_str]
        ELSE LET loaded_goals == LoadGoalsForUser(state.user_id, goalsFault)
             IN  [success |-> TRUE,
                  conversation_history |-> <<>>,
                  current_goal |-> state.current_goal,
                  past_goals |-> loaded_goals,
                  session_created |-> NoText,
                  total_goals |-> Len(loaded_goals)]
\* what get_session_history returns (lines 940-963) for `token`, with the
\* session load failing as loadFault says and the goal load as goalsFault
\* says; goalsFault "connect" is SessionLocal() raising an exception of text
\* error_str before load_goals_for_user's try (line 280)
GetSessionHistoryResult(token, loadFault, goalsFault, error_str) ==
    LET state == LoadSessionState(sessions, token, loadFault, idCounter).state
    IN  IF state = NoState
        THEN [success |-> FALSE, message |-> <<"Session not found">>]
        ELSE IF goalsFault = "connect"
        THEN [success |-> FALSE, error |-> error_str]
        ELSE LET loaded_goals == LoadGoalsForUser(state.user_id, goalsFault)
             IN  [success |-> TRUE,
                  conversation_history |-> state.conversation_history,
                  current_goal |-> state.current_goal,
                  past_goals |-> loaded_goals,
                  session_created |-> NoText,
                  total_goals |-> Len(loaded_goals)]

\* a caller asks for the history of a session: Gigi.get_session_history
GetSessionHistory ==
    /\ \A q \in Procs : pc[q] = "idle"
    /\ turnsLeft > 0
    /\ turnsLeft' = turnsLeft - 1
    /\ \E token \in tokens \cup {UnknownToken},
          loadFault \in {"none"} \cup LoadFaults,
          goalsFault \in {"none", "query", "connect"},
          error_str \in ConnectErrors :
         LET loaded == LoadSessionState(sessions, token, loadFault, idCounter)
             cost == FaultCost(loadFault)
                     + (IF loaded.state = NoState THEN 0
                        ELSE FaultCost(goalsFault))
         IN  /\ CanFail(cost)
             /\ faultsLeft' = faultsLeft - cost
             /\ idCounter' = loaded.idCounter
             /\ history_result' =
                    GetSessionHistoryResult(token, loadFault, goalsFault,
                                            error_str)
    /\ UNCHANGED <<users, sessions, goals, wrapperVars, clockVars, turnVars,
                   callGap, storeFaults, initial_state, raised, authVars>>
    /\ UNCHANGED checkpoint

\* --------------------------------------------------------------- specs
StartCounts == {0} \cup ((DailyLimit - NearCeiling)..DailyLimit)

\* ------------------------------------------- HTTP service: account tokens
Usernames == {<<"user", i>> : i \in 1..MaxAccounts}
Emails == {<<"mail", i>> : i \in 1..MaxAccounts}
Passwords == {"pw1", "pw2"}
NoToken == 0
\* hash_password: the SHA-256 digest of the password
HashPassword(password) == [sha256 |-> password]
\* generate_token: secrets.token_urlsafe(32), 256 random bits, taken as a
\* value never produced before
GenerateToken(n) == n + 1
\* load_json: the file's content, {} when reading or parsing it fails
LoadJson(file, fault) == IF fault THEN <<>> ELSE file
\* where `username` stands in the dict, 0 when it is not a key
UserIndex(users_d, username) ==
    IF \E i \in DOMAIN users_d : users_d[i].username = username
    THEN CHOOSE i \in DOMAIN users_d : users_d[i].username = username
    ELSE 0
\* verify_token: the username of the first user_data whose token is the
\* bearer credential, "401" (HTTPException) when there is none
VerifyToken(users_d, credentials) ==
    LET hits == {i \in DOMAIN users_d : users_d[i].token = credentials}
    IN  IF hits = {} THEN "401"
        ELSE users_d[CHOOSE i \in hits : \A j \in hits : i <= j].username

\* register_user on the loaded dict: the response and the dict saved
RegisterUserResult(users_d, username, email, password, n) ==
    LET user_data == [username |-> username, email |-> email,
                      password |-> HashPassword(password),
                      coaching_sessions |-> 0,
                      token |-> GenerateToken(n)]
    IN  IF UserIndex(users_d, username) # 0
        THEN [status |-> 400, detail |-> "Username already exists",
              users |-> users_d, token |-> NoToken]
        ELSE IF \E i \in DOMAIN users_d : users_d[i].email = email
        THEN [status |-> 400, detail |-> "Email already registered",
              users |-> users_d, token |-> NoToken]
        ELSE [status |-> 200, detail |-> "User registered successfully",
              users |-> Append(users_d, user_data),
              token |-> user_data.token]
\* login_user as it would be without line 180: the token the account has is
\* returned again
LoginUserResultKeepingToken(users_d, username, password, n) ==
    LET i == UserIndex(users_d, username)
    IN  IF i = 0 \/ users_d[i].password # HashPassword(password)
        THEN [status |-> 401, detail |-> "Invalid username or password",
              users |-> users_d, token |-> NoToken]
        ELSE [status |-> 200, detail |-> "Login successful",
              users |-> users_d, token |-> users_d[i].token]
\* login_user on the loaded dict: the response and the dict saved
LoginUserResult(users_d, username, password, n) ==
    LET i == UserIndex(users_d, username)
    IN  IF i = 0 \/ users_d[i].password # HashPassword(password)
        THEN [status |-> 401, detail |-> "Invalid username or password",
              users |-> users_d, token |-> NoToken]
        ELSE [status |-> 200, detail |-> "Login successful",
              users |-> [users_d EXCEPT ![i].token = GenerateToken(n)],
              token |-> GenerateToken(n)]

\* a read of users.json fails or not
ReadFaults == IF fileFaultsLeft > 0 THEN {FALSE, TRUE} ELSE {FALSE}
\* what the client and the service keep of a response that carries a token
Answer(r, username) ==
    /\ http_response' = [status |-> r.status, detail |-> r.detail,
                         username |-> username, token |-> r.token]
    /\ tokens_generated' =
           IF r.status = 200 THEN tokens_generated + 1 ELSE tokens_generated
    /\ issued' = IF r.status = 200
                 THEN [issued EXCEPT ![username] = Append(@, r.token)]
                 ELSE issued
    /\ IF r.status = 200 THEN users_file' = r.users ELSE users_file' = users_file

\* POST /users/register
RegisterUser ==
    /\ tokens_generated < MaxTokens
    /\ \E username \in Usernames, email \in Emails, password \in Passwords,
          fault \in ReadFaults :
           /\ fileFaultsLeft' = IF fault THEN fileFaultsLeft - 1 ELSE fileFaultsLeft
           /\ Answer(RegisterUserResult(LoadJson(users_file, fault), username,
                                        email, password, tokens_generated),
                     username)
    /\ UNCHANGED <<storeVars, wrapperVars, clockVars, turnVars, callGap,
                   envVars, facadeVars, coachVars>>
    /\ UNCHANGED checkpoint
\* POST /users/login
LoginUser ==
    /\ tokens_generated < MaxTokens
    /\ \E username \in Usernames, password \in Passwords,
          fault \in ReadFaults :
           /\ fileFaultsLeft' = IF fault THEN fileFaultsLeft - 1 ELSE fileFaultsLeft
           /\ Answer(LoginUserResult(LoadJson(users_file, fault), username,
                                     password, tokens_generated),
                     username)
    /\ UNCHANGED <<storeVars, wrapperVars, clockVars, turnVars, callGap,
                   envVars, facadeVars, coachVars>>
    /\ UNCHANGED checkpoint
\* GET /users/profile with a bearer token: verify_token, then the handler's
\* own read of users.json (users[current_user], a KeyError when it fails)
GetUserProfile ==
    /\ \E credentials \in 0..tokens_generated,
          verifyFault \in ReadFaults, handlerFault \in ReadFaults :
           LET current_user ==
                   VerifyToken(LoadJson(users_file, verifyFault), credentials)
               failed == verifyFault \/ (current_user # "401" /\ handlerFault)
           IN  /\ ~(verifyFault /\ handlerFault)
               /\ fileFaultsLeft' =
                      IF failed THEN fileFaultsLeft - 1 ELSE fileFaultsLeft
               /\ http_response' =
                      IF current_user = "401"
                      THEN [status |-> 401, detail |-> "Invalid token",
                            username |-> current_user, token |-> credentials]
                      ELSE IF handlerFault
                      THEN [status |-> 500, detail |-> "Internal Server Error",
                            username |-> current_user, token |-> credentials]
                      ELSE [status |-> 200, detail |-> "profile",
                            username |-> current_user, token |-> credentials]
    /\ UNCHANGED <<users_file, tokens_generated, issued>>
    /\ UNCHANGED <<storeVars, wrapperVars, clockVars, turnVars, callGap,
                   envVars, facadeVars, coachVars>>
    /\ UNCHANGED checkpoint

\* ------------------------------- HTTP service: coaching sessions and goals
\* what the clients write to a coaching session
CoachingMessages == {"goal", "hello"}
\* generate_ai_response: a reply chosen by the keywords of the message
GenerateAiResponse(user_message) ==
    IF user_message = "goal" THEN "goal setting reply" ELSE "generic reply"
\* a session id or goal id that no file holds
UnknownId == <<"unknown", 0>>
NoNote == "none"
\* the response of a handler that verify_token lets through or not
Respond(current_user, credentials, status, detail) ==
    http_response' =
        IF current_user = "401"
        THEN [status |-> 401, detail |-> "Invalid token",
              username |-> current_user, token |-> credentials]
        ELSE [status |-> status, detail |-> detail,
              username |-> current_user, token |-> credentials]
\* start_coaching_session for the authenticated `current_user`: the
\* response and the two dicts as saved; n session ids were made before.
\* The session is saved (line 241) before users[current_user] is used
\* (line 244, a KeyError when the handler's read of users.json failed).
StartCoachingSessionResult(sessions_d, users_d, current_user, n) ==
    LET session_id == <<"session", n + 1>>
        session_info == [user_id |-> current_user, messages |-> <<>>]
        saved == sessions_d @@ (session_id :> session_info)
        i == UserIndex(users_d, current_user)
    IN  IF i = 0
        THEN [status |-> 500, detail |-> "Internal Server Error",
              sessions |-> saved, users |-> users_d]
        ELSE [status |-> 200, detail |-> "Coaching session started successfully",
              sessions |-> saved,
              users |-> [users_d EXCEPT ![i].coaching_sessions = @ + 1]]
\* send_coaching_message for the authenticated `current_user`: the response
\* and the dict as saved
SendCoachingMessageResult(sessions_d, session_id, message, current_user) ==
    IF session_id \notin DOMAIN sessions_d
    THEN [status |-> 404, detail |-> "Session not found", sessions |-> sessions_d]
    ELSE LET user_message == [sender |-> "user", message |-> message]
             ai_message == [sender |-> "ai",
                            message |-> GenerateAiResponse(message)]
         IN  [status |-> 200, detail |-> GenerateAiResponse(message),
              sessions |-> [sessions_d EXCEPT ![session_id].messages =
                               @ \o <<user_message, ai_message>>]]
\* create_goal for the authenticated `current_user`; n goal ids were made
\* before
CreateGoalResult(goals_d, current_user, n) ==
    LET goal_id == <<"goal", n + 1>>
        goal_data == [user_id |-> current_user, status |-> "active",
                      progress |-> 0, notes |-> <<>>]
    IN  [status |-> 200, detail |-> "Goal created successfully",
         goals |-> goals_d @@ (goal_id :> goal_data)]
\* update_goal for the authenticated `current_user`
UpdateGoalResult(goals_d, goal_id, status, progress, notes, current_user) ==
    IF goal_id \notin DOMAIN goals_d
    THEN [status |-> 404, detail |-> "Goal not found", goals |-> goals_d]
    ELSE IF goals_d[goal_id].user_id # current_user
    THEN [status |-> 403, detail |-> "Access denied", goals |-> goals_d]
    ELSE [status |-> 200, detail |-> "Goal updated successfully",
          goals |-> [goals_d EXCEPT
                        ![goal_id].status = status,
                        ![goal_id].progress = progress,
                        ![goal_id].notes =
                            IF notes # NoNote THEN Append(@, notes) ELSE @]]

\* POST /coaching/start with a bearer token
StartCoachingSession ==
    /\ Cardinality(DOMAIN sessions_file) < MaxCoachSessions
    /\ \E credentials \in 0..tokens_generated,
          verifyFault \in ReadFaults, handlerFault \in ReadFaults :
           LET current_user ==
                   VerifyToken(LoadJson(users_file, verifyFault), credentials)
               failed == verifyFault \/ (current_user # "401" /\ handlerFault)
               r == StartCoachingSessionResult(
                        sessions_file, LoadJson(users_file, handlerFault),
                        current_user, Cardinality(DOMAIN sessions_file))
           IN  /\ ~(verifyFault /\ handlerFault)
               /\ fileFaultsLeft' =
                      IF failed THEN fileFaultsLeft - 1 ELSE fileFaultsLeft
               /\ Respond(current_user, credentials, r.status, r.detail)
               /\ sessions_file' =
                      IF current_user = "401" THEN sessions_file ELSE r.sessions
               /\ users_file' =
                      IF current_user # "401" /\ r.status = 200
                      THEN r.users ELSE users_file
    /\ UNCHANGED <<goals_file, tokens_generated, issued>>
    /\ UNCHANGED <<storeVars, wrapperVars, clockVars, turnVars, callGap,
                   envVars, facadeVars>>
    /\ UNCHANGED checkpoint
\* POST /coaching/message with a bearer token
SendCoachingMessage ==
    /\ \E credentials \in 0..tokens_generated, verifyFault \in ReadFaults,
          session_id \in DOMAIN sessions_file \cup {UnknownId},
          message \in CoachingMessages :
           LET current_user ==
                   VerifyToken(LoadJson(users_file, verifyFault), credentials)
               r == SendCoachingMessageResult(sessions_file, session_id,
                                              message, current_user)
           IN  /\ session_id \in DOMAIN sessions_file =>
                      Len(sessions_file[session_id].messages) < 2 * MaxExchanges
               /\ fileFaultsLeft' =
                      IF verifyFault THEN fileFaultsLeft - 1 ELSE fileFaultsLeft
               /\ Respond(current_user, credentials, r.status, r.detail)
               /\ sessions_file' =
                      IF current_user = "401" THEN sessions_file ELSE r.sessions
    /\ UNCHANGED <<users_file, goals_file, tokens_generated, issued>>
    /\ UNCHANGED <<storeVars, wrapperVars, clockVars, turnVars, callGap,
                   envVars, facadeVars>>
    /\ UNCHANGED checkpoint
\* POST /goals/create with a bearer token
CreateGoal ==
    /\ Cardinality(DOMAIN goals_file) < MaxCoachGoals
    /\ \E credentials \in 0..tokens_generated, verifyFault \in ReadFaults :
           LET current_user ==
                   VerifyToken(LoadJson(users_file, verifyFault), credentials)
               r == CreateGoalResult(goals_file, current_user,
                                     Cardinality(DOMAIN goals_file))
           IN  /\ fileFaultsLeft' =
                      IF verifyFault THEN fileFaultsLeft - 1 ELSE fileFaultsLeft
               /\ Respond(current_user, credentials, r.status, r.detail)
               /\ goals_file' =
                      IF current_user = "401" THEN goals_file ELSE r.goals
    /\ UNCHANGED <<users_file, sessions_file, tokens_generated, issued>>
    /\ UNCHANGED <<storeVars, wrapperVars, clockVars, turnVars, callGap,
                   envVars, facadeVars>>
    /\ UNCHANGED checkpoint
\* PUT /goals/update with a bearer token
UpdateGoal ==
    /\ \E credentials \in 0..tokens_generated, verifyFault \in ReadFaults,
          goal_id \in DOMAIN goals_file \cup {UnknownId},
          status \in {"active", "completed"}, progress \in {50},
          notes \in {NoNote, "note"} :
           LET current_user ==
                   VerifyToken(LoadJson(users_file, verifyFault), credentials)
               r == UpdateGoalResult(goals_file, goal_id, status, progress,
                                     notes, current_user)
           IN  /\ goal_id \in DOMAIN goals_file =>
                      Len(goals_file[goal_id].notes) < MaxCoachGoals
               /\ fileFaultsLeft' =
                      IF verifyFault THEN fileFaultsLeft - 1 ELSE fileFaultsLeft
               /\ Respond(current_user, credentials, r.status, r.detail)
               /\ goals_file' =
                      IF current_user = "401" THEN goals_file ELSE r.goals
    /\ UNCHANGED <<users_file, sessions_file, tokens_generated, issued>>
    /\ UNCHANGED <<storeVars, wrapperVars, clockVars, turnVars, callGap,
                   envVars, facadeVars>>
    /\ UNCHANGED checkpoint

\* the most failures one turn can meet: MaxRetries failed calls in each of
\* the three invokes, and one failure of each store operation of the stage
\* bodies
AllFaults == 3 * MaxRetries + 5

\* the store is empty and no turn runs; the wrapper has admitted `count`
\* calls today, none within the last MinInterval
InitWith(count, nTurns, nFaults, store) ==
    /\ users = {}
    /\ sessions = <<>>
    /\ goals = <<>>
    /\ idCounter = 0
    /\ last_request_time = Now - MinInterval
    /\ daily_request_count = count
    /\ last_reset_time = 0
    /\ today = 0
    /\ pc = [p \in Procs |-> "idle"]
    /\ st = [p \in Procs |-> BlankState]
    /\ inv = [p \in Procs |-> IdleFrame]
    /\ wake = [p \in Procs |-> 0]
    /\ past_goals = [p \in Procs |-> <<>>]
    /\ executed = [p \in Procs |-> <<>>]
    /\ turns = 0
    /\ tokens = {}
    /\ turnsLeft = nTurns
    /\ faultsLeft = nFaults
    /\ storeFaults = store
    /\ callGap = MinInterval
    /\ initial_state = [p \in Procs |-> BlankState]
    /\ raised = [p \in Procs |-> NoText]
    /\ history_result = NoResult
    /\ users_file = <<>>
    /\ tokens_generated = 0
    /\ issued = [u \in Usernames |-> <<>>]
    /\ fileFaultsLeft = MaxFileFaults
    /\ http_response = NoResult
    /\ sessions_file = <<>>
    /\ goals_file = <<>>
    /\ checkpoint = <<>>

\* one step of a running turn
TurnStep(p) ==
    \/ StartSessionNode(p)
    \/ AnalyzeInputNode(p)
    \/ IdentifyGoalsNode(p)
    \/ GeneratePlanNode(p)
    \/ FinalizeResponseNode(p)
    \/ ErrorHandlingNode(p)
    \/ WorkflowRaises(p)
    \/ ReturnResult(p)
    \/ PacingWake(p)
    \/ BackoffWake(p)

\* a single caller: one turn at a time
SerialStart ==
    /\ \A q \in Procs : pc[q] = "idle"
    /\ \E supplied \in {NoId} \cup tokens :
           ProcessMessage(1, Message(turns + 1), supplied)

Next ==
    \/ SerialStart
    \/ GetSessionHistory
    \/ TurnStep(1)
    \/ AdvanceTime
    \/ IdleTime

\* a single caller, MaxTurns turns in a row, a fresh wrapper
Init == InitWith(0, MaxTurns, MaxFaults, TRUE)
Spec == Init /\ [][Next]_vars

\* a single caller, one turn meeting any failures, the wrapper anywhere up to
\* its ceiling, midnight passing at any moment
InitTurn ==
    \E count \in StartCounts : InitWith(count, 1, AllFaults, TRUE)
NextTurn ==
    \/ Next
    \/ NewDay
SpecTurn == InitTurn /\ [][NextTurn]_vars

\* one turn per caller, run concurrently on the one event loop, the store
\* healthy and one call failing; the callers are numbered in the order they
\* call
ConcurrentStart ==
    /\ turns + 1 \in Procs
    /\ \E supplied \in {NoId} \cup tokens :
           ProcessMessage(turns + 1, Message(turns + 1), supplied)
NextConc ==
    \/ ConcurrentStart
    \/ \E p \in Procs : TurnStep(p)
    \/ AdvanceTime
    \/ IdleTime
InitConc ==
    \E count \in {0, DailyLimit - NearCeiling} :
        InitWith(count, Cardinality(Procs), 1, FALSE)
SpecConc == InitConc /\ [][NextConc]_vars

\* two callers use one session token at the same time: process_message
\* takes whatever token its caller passes
SharedToken == <<"session", -2>>
SameTokenStart ==
    /\ turns + 1 \in Procs
    /\ ProcessMessage(turns + 1, Message(turns + 1), SharedToken)
NextSame ==
    \/ SameTokenStart
    \/ \E p \in Procs : TurnStep(p)
    \/ AdvanceTime
    \/ IdleTime
InitSame == InitWith(0, Cardinality(Procs), 1, FALSE)
SpecSame == InitSame /\ [][NextSame]_vars

\* the HTTP service alone: accounts are registered, logged in and used
InitAuth == InitWith(0, 0, 0, FALSE)
NextAuth ==
    \/ RegisterUser
    \/ LoginUser
    \/ GetUserProfile
SpecAuth == InitAuth /\ [][NextAuth]_vars

\* the HTTP service's clients register, start coaching sessions, write to
\* them and keep goals
NextCoach ==
    \/ RegisterUser
    \/ StartCoachingSession
    \/ SendCoachingMessage
    \/ CreateGoal
    \/ UpdateGoal
SpecCoach == InitAuth /\ [][NextCoach]_vars

\* ------------------------------------------------------------ properties
Range(seq) == {seq[i] : i \in DOMAIN seq}
Sleeping(p) == pc[p] \in {"pacing_sleep", "backoff_sleep"}

\* what turn p has still to do at most: the stages after the one it is in,
\* and within an invoke the attempts and sleeps left
StageRank(stage) ==
    CASE stage = "start_session" -> 6
      [] stage = "analyze_input" -> 5
      [] stage = "identify_goals" -> 4
      [] stage = "generate_plan" -> 3
      [] stage \in {"finalize_response", "error_handling"} -> 2
      [] stage \in {"END", "RAISED"} -> 1
      [] OTHER -> 0
Rank(p) ==
    LET left == 2 * (MaxRetries - inv[p].attempt)
        width == 2 * MaxRetries + 2
    IN  CASE pc[p] = "pacing_sleep" -> width * StageRank(inv[p].stage) + left
          [] pc[p] = "backoff_sleep" ->
                 width * StageRank(inv[p].stage) + left - 1
          [] OTHER -> width * StageRank(pc[p]) + width - 1

\* C1: every turn terminates. Each step of a running turn (a stage body run
\* to its next suspension, a wake-up, the return) strictly lowers a rank
\* that is a natural number, whatever the calls return and whichever store
\* operations fail: the turn reaches the end after a bounded number of
\* steps, and no stage is entered twice.
TurnTerminates ==
    [][\A p \in Procs :
         (pc[p] # "idle" /\ (pc'[p] # pc[p] \/ inv'[p] # inv[p]))
             => /\ Rank(p)' < Rank(p)
                /\ Rank(p)' >= 0
                /\ Len(executed'[p]) <= 5]_vars
\* a turn that met three failures ran five stage bodies and reached the end
TurnTerminatesWitness ==
    /\ pc[1] = "END"
    /\ Len(executed[1]) = 5
    /\ faultsLeft <= AllFaults - 3

\* C2: load_goals_for_user(A) returns only payloads of rows whose
\* user_internal_id is A, for every user id the store or a turn knows, with
\* other users' rows in the same table; and what analyze_input loaded for a
\* turn belongs to that turn's user.
KnownUserIds ==
    users \cup {goals[i].user_internal_id : i \in DOMAIN goals}
          \cup {st[p].user_id : p \in Procs}
GoalsIsolated ==
    /\ \A A \in KnownUserIds : \A fault \in {"none", "query"} :
         LET loaded == LoadGoalsForUser(A, fault)
         IN  \A k \in DOMAIN loaded : \A i \in DOMAIN goals :
                 DecryptData(goals[i].encrypted_goal_data) = loaded[k]
                     => goals[i].user_internal_id = A
    /\ \A p \in Procs : \A k \in DOMAIN past_goals[p] :
         \A i \in DOMAIN goals :
             DecryptData(goals[i].encrypted_goal_data) = past_goals[p][k]
                 => goals[i].user_internal_id = st[p].user_id
\* two users have a goal each in the one table, and a load returns a goal
GoalsIsolatedWitness ==
    \E i, j \in DOMAIN goals :
        /\ goals[i].user_internal_id # goals[j].user_internal_id
        /\ Len(LoadGoalsForUser(goals[i].user_internal_id, "none")) = 1

\* C3: every goal row's user_internal_id equals the user linked to the
\* session row with the goal's session_token.
GoalOwnerMatchesSession ==
    \A i \in DOMAIN goals :
        SessionExists(sessions, goals[i].session_token)
            => sessions[goals[i].session_token].user
                   = goals[i].user_internal_id

\* C4: a stage starts an invoke when the daily counter stands at the ceiling
\* for the current date: the invoke returns in that same step with the
\* fallback text, having made no call and slept neither for pacing nor for
\* backoff, and the wrapper's counter and timestamp are as before.
InvokeStarts(p) ==
    /\ pc[p] \in {"analyze_input", "identify_goals", "generate_plan"}
    /\ executed'[p] = Append(executed[p], pc[p])
    /\ inv'[p].stage = pc[p]
CeilingFailsAtOnce ==
    [][\A p \in Procs :
         (/\ InvokeStarts(p)
          /\ daily_request_count >= DailyLimit
          /\ ~(today > last_reset_time))
         => /\ inv'[p].returned
            /\ inv'[p].ret = UnexpectedMsg
            /\ inv'[p].calls = 0
            /\ inv'[p].backoffs = 0
            /\ inv'[p].pacing = 0
            /\ ~Sleeping(p)'
            /\ daily_request_count' = daily_request_count
            /\ last_request_time' = last_request_time]_vars
\* an invoke has returned at the ceiling without a call
CeilingFailsAtOnceWitness ==
    \E p \in Procs :
        /\ inv[p].stage = "analyze_input"
        /\ inv[p].returned
        /\ inv[p].calls = 0
        /\ inv[p].ret = UnexpectedMsg
        /\ daily_request_count = DailyLimit
        /\ today = last_reset_time

\* C5: a single caller: every call starts at least MinInterval after the
\* call before it, retries included.
PacedCalls == callGap >= MinInterval
\* a second call of the day was made after a pacing sleep
PacedCallsWitness ==
    /\ inv[1].pacing > 0
    /\ inv[1].calls > 0
    /\ daily_request_count >= 2
    /\ callGap = MinInterval

\* C6: concurrent turns: every call starts at least MinInterval after the
\* call before it, whichever turn made it.
PacedCallsConcurrent ==
    \A p \in Procs : inv[p].calls > 0 => callGap >= MinInterval

\* C7: concurrent turns: the daily counter never exceeds the ceiling.
CounterWithinCeiling == daily_request_count <= DailyLimit

\* C8: an invoke that is not asleep has returned a text to its stage, and
\* one that failed on its last attempt returned the text of that failure's
\* class.
InvokeReturnsText ==
    \A p \in Procs :
        inv[p].stage # "none" =>
            /\ ~Sleeping(p) => inv[p].returned /\ inv[p].ret # NoText
            /\ (/\ inv[p].returned
                /\ inv[p].attempt = MaxRetries - 1
                /\ inv[p].last_class = "rate") => inv[p].ret = HighDemandMsg
            /\ (/\ inv[p].returned
                /\ inv[p].attempt = MaxRetries - 1
                /\ inv[p].last_class = "server") => inv[p].ret = TechnicalMsg
\* an invoke returned after a server failure on its third call
InvokeReturnsTextWitness ==
    /\ inv[1].returned
    /\ inv[1].calls = MaxRetries
    /\ inv[1].last_class = "server"
    /\ inv[1].ret = TechnicalMsg

\* C9: an invoke makes at most MaxRetries calls; after a rate or server
\* failure before the last attempt it sleeps and then makes another attempt,
\* so it returns after such a failure only on the last attempt; after an
\* unknown failure it returns at once, without a sleep.
AttemptsBounded ==
    \A p \in Procs :
        /\ inv[p].calls <= MaxRetries
        /\ inv[p].attempt <= MaxRetries - 1
        /\ inv[p].calls <= inv[p].attempt + 1
        /\ pc[p] = "backoff_sleep" =>
               /\ inv[p].last_class \in {"rate", "server"}
               /\ inv[p].attempt < MaxRetries - 1
               /\ inv[p].backoffs = inv[p].attempt + 1
               /\ ~inv[p].returned
        /\ pc[p] # "backoff_sleep" => inv[p].backoffs = inv[p].attempt
        /\ (inv[p].returned /\ inv[p].last_class \in {"rate", "server"})
               => inv[p].attempt = MaxRetries - 1
        /\ (inv[p].returned /\ inv[p].last_class = "unknown")
               => inv[p].ret = UnexpectedMsg
\* an invoke sleeps for the second time, after two failed calls
AttemptsBoundedWitness ==
    /\ pc[1] = "backoff_sleep"
    /\ inv[1].calls = 2
    /\ inv[1].backoffs = 2

\* the analysis of turn p is the fallback text of an unknown-class failure
\* of the call itself: no midnight has passed and the counter is below the
\* ceiling, so the ceiling did not produce it
UnknownFailureInAnalysis(p) ==
    /\ st[p].user_analysis = UnexpectedMsg
    /\ today = 0
    /\ daily_request_count < DailyLimit

\* C10 as stated: after an unknown-class failure in analyze_input the turn
\* ends through error_handling with the apology and no goal row.
UnknownFailureEndsInApology ==
    \A p \in Procs :
        (pc[p] = "END" /\ UnknownFailureInAnalysis(p))
            => /\ "error_handling" \in Range(executed[p])
               /\ st[p].response_message = ApologyMsg
               /\ goals = <<>>

\* C10, amended: after an unknown-class failure in analyze_input the invoke
\* returns the fallback text, which becomes the analysis with no processing
\* error recorded, and the turn goes on to identify_goals; when that failure
\* is the turn's only one and the turn reaches finalize_response, the
\* response carries the fallback text, not the apology, and the turn's goal
\* is persisted.
UnknownFailureContinues ==
    \A p \in Procs :
        /\ (/\ inv[p].stage = "analyze_input"
            /\ inv[p].returned
            /\ inv[p].calls > 0
            /\ inv[p].last_class = "unknown")
           => /\ pc[p] = "identify_goals"
              /\ st[p].user_analysis = UnexpectedMsg
              /\ st[p].analysis_complete
              /\ st[p].processing_errors = <<>>
        /\ (/\ pc[p] = "END"
            /\ UnknownFailureInAnalysis(p)
            /\ faultsLeft = AllFaults - 1
            /\ "finalize_response" \in Range(executed[p]))
           => /\ st[p].response_message # ApologyMsg
              /\ SubSeq(st[p].response_message, 2, 1 + Len(UnexpectedMsg))
                     = UnexpectedMsg
              /\ "error_handling" \notin Range(executed[p])
              /\ \E i \in DOMAIN goals :
                     goals[i].session_token = st[p].session_token
\* a turn whose only failure was the unknown one in analyze_input has ended
\* with a goal row
UnknownFailureContinuesWitness ==
    /\ pc[1] = "END"
    /\ UnknownFailureInAnalysis(1)
    /\ faultsLeft = AllFaults - 1
    /\ goals # <<>>

\* C11: process_message never raises: whenever a turn's workflow has ended
\* or has raised, the caller gets a dict with success, response and
\* session_token. Errors recorded by the stages are absorbed (success is
\* true although processing_errors is non-empty); success is false exactly
\* when an exception left the workflow, and then the response is the fixed
\* apology and session_token is the token the turn was started with.
ProcessMessageNeverRaises ==
    \A p \in Procs :
        pc[p] \in {"END", "RAISED"} =>
            LET r == ProcessMessageReturn(p)
            IN  /\ {"success", "response", "session_token"} \subseteq DOMAIN r
                /\ r.success = (raised[p] = NoText)
                /\ (pc[p] = "END" /\ st[p].processing_errors # <<>>)
                       => r.success
                /\ ~r.success
                       => /\ r.response = FacadeApologyMsg
                          /\ r.session_token = initial_state[p].session_token
                          /\ r.session_token # NoId
\* the workflow of a second turn, started with the token of the first,
\* has raised
ProcessMessageNeverRaisesWitness ==
    /\ pc[1] = "RAISED"
    /\ turns = 2
    /\ initial_state[1].session_token \in tokens

\* C12: no dict returned by process_message or get_session_history carries
\* the text of an exception: the result of a turn whose workflow raised is
\* the same whatever the exception's text was, and what
\* get_session_history returned holds no connection error text.
ResultsHideDiagnostics ==
    /\ \A p \in Procs :
           pc[p] = "RAISED" =>
               \A e \in EngineErrors :
                   ProcessMessageFailure(initial_state[p], e)
                       = ProcessMessageReturn(p)
    /\ "error" \in DOMAIN history_result
           => history_result.error \notin ConnectErrors

\* C13: every turn that executed error_handling ends with the same fixed
\* apology as its response, whatever errors were recorded, and no entry of
\* processing_errors appears in the response the caller gets.
ErrorHandlingHidesErrors ==
    \A p \in Procs :
        (pc[p] = "END" /\ "error_handling" \in Range(executed[p]))
            => /\ st[p].response_message = ApologyMsg
               /\ ProcessMessageReturn(p).response = ApologyMsg
               /\ st[p].current_step = "complete"
               /\ \A i \in DOMAIN st[p].processing_errors :
                      ~Contains(ProcessMessageReturn(p).response,
                                st[p].processing_errors[i])
\* a turn ended through error_handling with a recorded error
ErrorHandlingHidesErrorsWitness ==
    /\ pc[1] = "END"
    /\ "error_handling" \in Range(executed[1])
    /\ st[1].processing_errors # <<>>
    /\ st[1].response_message = ApologyMsg

\* C14: a turn whose analysis, goal identification and plan generation all
\* completed with no recorded error runs finalize_response; when the store
\* works during that stage the turn ends with current_step = complete and
\* success = true, the response has a Goal Summary section, and exactly one
\* goal row was added, linked to the turn's user id, the rows before it
\* unchanged.
CleanTurnPersistsGoal ==
    [][\A p \in Procs :
          (/\ pc[p] = "finalize_response"
           /\ pc'[p] = "END"
           /\ faultsLeft' = faultsLeft)
              => /\ st[p].analysis_complete
                 /\ st[p].goal_identified
                 /\ st[p].plan_generated
                 /\ st[p].processing_errors = <<>>
                 /\ st'[p].current_step = "complete"
                 /\ st'[p].processing_errors = <<>>
                 /\ ProcessMessageResult(st'[p]).success
                 /\ Contains(ProcessMessageResult(st'[p]).response,
                             "## Goal Summary")
                 /\ Len(goals') = Len(goals) + 1
                 /\ SubSeq(goals', 1, Len(goals)) = goals
                 /\ goals'[Len(goals')].user_internal_id = st[p].user_id
                 /\ goals'[Len(goals')].session_token = st[p].session_token
                 /\ st[p].user_id # NoId]_vars
\* a second turn with no failure anywhere has ended through
\* finalize_response with its goal row added
CleanTurnPersistsGoalWitness ==
    /\ pc[1] = "END"
    /\ turns = 2
    /\ faultsLeft = MaxFaults
    /\ "finalize_response" \in Range(executed[1])
    /\ Len(goals) = 2
    /\ goals[2].user_internal_id = st[1].user_id

\* C15: history accumulates over the successful turns of a session. While
\* nothing has failed, a turn that ends through finalize_response extends
\* the history persisted for its token by exactly one entry, which carries
\* the message the turn was called with, and leaves the earlier entries as
\* they were; the history then has as many entries as the session has
\* finalized turns (one goal row each). So after n such turns the history
\* has n entries in turn order, and the loaded state never replaced the
\* new message.
HistoryGrowsByTurn ==
    [][\A p \in Procs :
          (/\ pc[p] = "finalize_response"
           /\ pc'[p] = "END"
           /\ faultsLeft = MaxFaults
           /\ faultsLeft' = faultsLeft)
              => LET token == initial_state[p].session_token
                     before == PersistedHistory(sessions, token)
                     after == PersistedHistory(sessions', token)
                     finalized ==
                         SelectSeq(goals', LAMBDA g : g.session_token = token)
                 IN  /\ Len(after) = Len(before) + 1
                     /\ SubSeq(after, 1, Len(before)) = before
                     /\ after[Len(after)].user_message
                            = initial_state[p].user_message
                     /\ Len(after) = Len(finalized)]_vars
\* two turns on one token have ended through finalize_response and the
\* persisted history holds their two messages in order
HistoryGrowsByTurnWitness ==
    /\ pc[1] = "END"
    /\ turns = 2
    /\ faultsLeft = MaxFaults
    /\ LET h == PersistedHistory(sessions, st[1].session_token)
       IN  /\ Len(h) = 2
           /\ h[1].user_message = Message(1)
           /\ h[2].user_message = Message(2)

\* C16: get_or_create_user_for_session is idempotent whatever the first
\* call met: in every store state the turns reach, for every token and
\* every outcome of a first call (no failure, or the query, the user commit
\* or the link commit failing), a second call returns the id the first
\* returned and creates no further User or Session row.
GetOrCreateUserIdempotent ==
    \A token \in DOMAIN sessions \cup tokens \cup {UnknownToken},
       fault \in {"none", "query", "user_commit", "link_commit"} :
        LET first == GetOrCreateUserIn(users, sessions, idCounter, token, fault)
            second == GetOrCreateUserIn(first.users, first.sessions,
                                        first.idCounter, token, "none")
        IN  /\ second.user_id = first.user_id
            /\ second.users = first.users
            /\ second.sessions = first.sessions

\* the substring from the first "{" to the last "}" parses
BracesParse(text) ==
    /\ Find(text, "{") # -1
    /\ RFind(text, "}") + 1 > Find(text, "{")
    /\ JsonLoads(Slice(text, Find(text, "{"), RFind(text, "}") + 1))
           # JsonError

\* C17: goal extraction applies three tiers and never raises. Whatever
\* text the goal extraction call returned (a completion of the model or one
\* of the wrapper's fallback texts): a text that parses is taken parsed;
\* one that does not, but whose substring from the first "{" to the last
\* "}" parses, yields that substring parsed; any other text yields the
\* fixed default goal (domains lifestyle, timeframe 4 weeks), and the turn
\* goes on to generate_plan with that goal and no recorded error.
GoalExtractionTiers ==
    \A p \in Procs :
        (inv[p].stage = "identify_goals" /\ inv[p].returned)
            => LET text == inv[p].ret
                   data == ParseJsonSafe(text)
               IN  /\ data # JsonError
                   /\ JsonLoads(text) # JsonError => data = JsonLoads(text)
                   /\ (JsonLoads(text) = JsonError /\ BracesParse(text))
                          => data = JsonLoads(Slice(text, Find(text, "{"),
                                                    RFind(text, "}") + 1))
                   /\ (JsonLoads(text) = JsonError /\ ~BracesParse(text))
                          => /\ data = DefaultGoalData
                             /\ pc[p] = "generate_plan"
                             /\ st[p].goal_assessment = DefaultGoalData
                             /\ st[p].current_goal.domains = <<"lifestyle">>
                             /\ st[p].current_goal.timeframe = <<"4 weeks">>
                             /\ st[p].goal_identified
                             /\ st[p].processing_errors = <<>>
\* the goal extraction call answered in prose and the turn goes on with the
\* default goal
GoalExtractionTiersWitness ==
    /\ pc[1] = "generate_plan"
    /\ inv[1].stage = "identify_goals"
    /\ inv[1].ret = PlainText
    /\ st[1].current_goal # NoGoal
    /\ st[1].current_goal.timeframe = <<"4 weeks">>

\* C18: a malformed goal extraction answer is never surfaced. Whatever text
\* the goal extraction call returned (not JSON, JSON that is not an object,
\* an object lacking a field or with a field of the wrong type),
\* identify_goals records no processing error, does not route to
\* error_handling and sets goal_identified; an answer no Goal can be built
\* from is replaced by the default goal.
MalformedGoalNeverSurfaces ==
    \A p \in Procs :
        (inv[p].stage = "identify_goals" /\ inv[p].returned)
            => /\ st[p].processing_errors = <<>>
               /\ pc[p] # "error_handling"
               /\ st[p].goal_identified
               /\ ~GoalBuilds(JsonLoads(inv[p].ret))
                      => st[p].goal_assessment = DefaultGoalData

\* C19: a session payload that is absent or cannot be read is no prior
\* state. load_session_state returns none for a token with no record and,
\* for every record, when the query, the decryption or the deserialization
\* fails; and a turn whose start_session got none from it goes on to
\* analyze_input with an empty history, its own message and no recorded
\* error.
UnreadableSessionIsNoPriorState ==
    [][\A p \in Procs :
          (pc[p] = "start_session" /\ pc'[p] = "analyze_input")
              => /\ LoadSessionState(sessions', UnknownToken, "none",
                                      idCounter').state = NoState
                 /\ \A token \in DOMAIN sessions', fault \in LoadFaults :
                        LoadSessionState(sessions', token, fault,
                                         idCounter').state = NoState
                 /\ st'[p].current_step # "resume"
                        => /\ st'[p].conversation_history = <<>>
                           /\ st'[p].user_message
                                  = initial_state[p].user_message
                           /\ st'[p].session_token
                                  = initial_state[p].session_token
                           /\ st'[p].user_id # NoId
                           /\ st'[p].processing_errors = <<>>]_vars
\* a second turn runs on a session whose persisted payload holds the first
\* turn's entry; its start_session could not read the payload and went on
\* as a turn with no history
UnreadableSessionIsNoPriorStateWitness ==
    /\ pc[1] = "analyze_input"
    /\ turns = 2
    /\ faultsLeft = MaxFaults - 1
    /\ Len(PersistedHistory(sessions, st[1].session_token)) = 1
    /\ st[1].current_step = "analyzing_input"
    /\ st[1].conversation_history = <<>>
    /\ st[1].user_message = Message(2)

\* C20: store failures stay inside the store layer. Whichever store
\* operations fail in a turn, no stage sees an exception from the store:
\* start_session never has to fall back to its own 'fallback_user' id, no
\* processing error is recorded for analyze_input (whose only other
\* operation, the call, returns text) or for finalize_response; and a turn
\* that has ended returns a response.
StoreFailuresNeverPropagate ==
    \A p \in Procs :
        /\ st[p].user_id # NoId => st[p].user_id[1] # "fallback_user"
        /\ "Analysis failed" \notin Range(st[p].processing_errors)
        /\ "Response finalization failed" \notin Range(st[p].processing_errors)
        /\ pc[p] \in {"END", "RAISED"}
               => ProcessMessageReturn(p).response # NoText

\* C21: a persistence failure in finalize_response is not surfaced. A
\* finalize_response step in which saving the session or saving the goal
\* failed still ends the turn with current_step = complete and the composed
\* response, adds nothing to processing_errors and does not run
\* error_handling.
FinalizeSurvivesSaveFailure ==
    [][\A p \in Procs :
          (/\ pc[p] = "finalize_response"
           /\ pc'[p] = "END"
           /\ faultsLeft' < faultsLeft)
              => /\ st'[p].current_step = "complete"
                 /\ st'[p].response_message = ComposeResponse(st[p])
                 /\ st'[p].processing_errors = st[p].processing_errors
                 /\ "error_handling" \notin Range(executed'[p])]_vars

\* C22: goals are append-only. No step changes or removes a goal row that
\* exists; the table grows by at most one row per step, only in a
\* finalize_response step of a turn that identified a goal, and the new row
\* is that turn's; such a step with the store working adds exactly one
\* row. So every user's goal list, as load_goals_for_user returns it, only
\* grows at its end.
GoalsAppendOnly ==
    [][/\ Len(goals') \in {Len(goals), Len(goals) + 1}
       /\ SubSeq(goals', 1, Len(goals)) = goals
       /\ \A u \in KnownUserIds :
              LET before == LoadGoalsForUser(u, "none")
                  after == LoadGoalsForUser(u, "none")'
              IN  /\ Len(after) >= Len(before)
                  /\ SubSeq(after, 1, Len(before)) = before
       /\ goals' # goals
              => \E p \in Procs :
                     /\ pc[p] = "finalize_response"
                     /\ pc'[p] = "END"
                     /\ st[p].goal_identified
                     /\ goals'[Len(goals')].user_internal_id = st[p].user_id
                     /\ DecryptData(goals'[Len(goals')].encrypted_goal_data)
                            = st[p].current_goal
       /\ \A p \in Procs :
              (/\ pc[p] = "finalize_response"
               /\ pc'[p] = "END"
               /\ faultsLeft' = faultsLeft)
                  => Len(goals') = Len(goals) + 1]_vars
\* a user's second goal row was added after the first, which is unchanged
GoalsAppendOnlyWitness ==
    /\ pc[1] = "END"
    /\ turns = 2
    /\ Len(goals) = 2
    /\ goals[1].user_internal_id = goals[2].user_internal_id
    /\ goals[1].internal_goal_id # goals[2].internal_goal_id

GetSessionHistoryStep == turnsLeft' < turnsLeft /\ turns' = turns
\* the goals stored under the user linked to `token`, decrypted
GoalsOfSessionUser(token) ==
    LET rows == SelectSeq(goals, LAMBDA g :
                    g.user_internal_id = sessions[token].user)
    IN  [i \in 1..Len(rows) |-> DecryptData(rows[i].encrypted_goal_data)]

StepOf(p) ==
    pc'[p] # pc[p] \/ inv'[p] # inv[p] \/ executed'[p] # executed[p]

\* C25: turns on different session tokens are independent. While turns p
\* and q are in flight on different tokens, no step of p changes q's
\* session row (payload and user link), the goals stored under q's user, or
\* q's working state.
TurnsOnDifferentTokensIndependent ==
    [][\A p, q \in Procs :
          (/\ p # q
           /\ pc[p] # "idle" /\ pc[q] # "idle"
           /\ st[p].session_token # st[q].session_token
           /\ StepOf(p))
             => LET token == st[q].session_token
                IN  /\ st'[q] = st[q]
                    /\ SessionExists(sessions', token)
                           = SessionExists(sessions, token)
                    /\ SessionExists(sessions, token)
                           => sessions'[token] = sessions[token]
                    /\ LoadGoalsForUser(st[q].user_id, "none")'
                           = LoadGoalsForUser(st[q].user_id, "none")]_vars
\* two turns in flight on different tokens, both sessions stored: turn 1 has
\* saved its session and its goal while turn 2 is between stages
TurnsOnDifferentTokensIndependentWitness ==
    /\ pc[1] = "END" /\ pc[2] = "generate_plan"
    /\ st[1].session_token # st[2].session_token
    /\ SessionExists(sessions, st[1].session_token)
    /\ SessionExists(sessions, st[2].session_token)
    /\ Len(PersistedHistory(sessions, st[1].session_token)) = 1
    /\ PersistedHistory(sessions, st[2].session_token) = <<>>
    /\ Len(goals) = 1
    /\ st[2].goal_identified

\* the session tokens that are linked to a user
LinkedTokens == {t \in DOMAIN sessions : sessions[t].user # NoId}
\* two distinct session tokens are linked to the same user id
SessionsShareUser ==
    \E t1, t2 \in LinkedTokens :
        t1 # t2 /\ sessions[t1].user = sessions[t2].user

\* C26: a user may own many sessions. As stated: where two sessions are
\* linked to users, core operations have reached a store in which two
\* distinct session tokens are linked to the same user id.
UserOwnsManySessions ==
    Cardinality(LinkedTokens) >= 2 => SessionsShareUser
\* C26 as the code has it: no sequence of process_message,
\* get_or_create_user_for_session and save_session_state links two distinct
\* session tokens to the same user id. Every link is made to the id
\* generated for that token in the same call, so each linked user owns
\* exactly one session, and every linked user is in the users table.
EachUserOwnsOneSession ==
    /\ ~SessionsShareUser
    /\ \A t \in LinkedTokens : sessions[t].user \in users
\* two turns on two tokens have run: two sessions, each linked to its own
\* user
EachUserOwnsOneSessionWitness ==
    /\ Cardinality(LinkedTokens) = 2
    /\ Cardinality(users) = 2
    /\ turns = 2 /\ pc[1] = "END"

\* the token a client was sent last, i.e. the account's current one
LastIssued(username) == issued[username][Len(issued[username])]

RoutedStages == {"analyze_input", "identify_goals", "generate_plan"}
Following(stage) ==
    CASE stage = "analyze_input" -> "identify_goals"
      [] stage = "identify_goals" -> "generate_plan"
      [] stage = "generate_plan" -> "finalize_response"
CompletionFlag(stage, state) ==
    CASE stage = "analyze_input" -> state.analysis_complete
      [] stage = "identify_goals" -> state.goal_identified
      [] stage = "generate_plan" -> state.plan_generated
WithFlagAndErrors(stage, state, flag, errors) ==
    CASE stage = "analyze_input" ->
             [state EXCEPT !.analysis_complete = flag,
                           !.processing_errors = errors]
      [] stage = "identify_goals" ->
             [state EXCEPT !.goal_identified = flag,
                           !.processing_errors = errors]
      [] stage = "generate_plan" ->
             [state EXCEPT !.plan_generated = flag,
                           !.processing_errors = errors]
\* `next` is the stage the claim names after `stage` left `state`
RoutedAsClaimed(stage, state, next) ==
    LET flag == CompletionFlag(stage, state)
        clean == state.processing_errors = <<>>
    IN  /\ (next = Following(stage)) <=> (flag /\ clean)
        /\ (next = "error_handling") <=> ~clean
        /\ (next = stage) <=> (~flag /\ clean)

\* C28: after analyze_input, identify_goals and generate_plan the next stage
\* is the following stage iff the stage's completion flag is set and
\* processing_errors is empty, error_handling iff processing_errors is
\* non-empty whatever the flag, and the same stage iff the flag is unset and
\* processing_errors is empty. This holds of the stage every turn goes to
\* when one of the three stage bodies has returned, and of that stage's
\* conditional edge on the returned state with the flag and the errors set
\* each way.
RoutingAfterStage ==
    [][\A p \in Procs :
          (/\ inv'[p] # inv[p]
           /\ inv'[p].returned
           /\ inv'[p].stage \in RoutedStages)
             => LET stage == inv'[p].stage
                IN  /\ RoutedAsClaimed(stage, st'[p], pc'[p])
                    /\ \A flag \in BOOLEAN, errors \in {<<>>, <<TechnicalMsg>>} :
                           LET state == WithFlagAndErrors(stage, st'[p],
                                                          flag, errors)
                           IN  RoutedAsClaimed(stage, state,
                                               Route(stage, state))]_vars
\* a turn advanced from analyze_input to identify_goals with its flag set
\* and no error, and left identify_goals for error_handling with an error
RoutingAfterStageWitness ==
    /\ pc[1] = "error_handling"
    /\ executed[1] = <<"start_session", "analyze_input", "identify_goals">>
    /\ st[1].analysis_complete
    /\ ~st[1].goal_identified
    /\ st[1].processing_errors # <<>>

\* some turn has entered error_handling directly from `stage`
ErrorHandlingEnteredFrom(stage) ==
    \E p \in Procs :
        /\ pc[p] = "error_handling"
        /\ executed[p] # <<>>
        /\ executed[p][Len(executed[p])] = stage

\* C29: error_handling is a direct successor of each of start_session,
\* analyze_input, identify_goals and generate_plan, by a transition that
\* some execution takes. For start_session, the one of the four whose body
\* records no error: a start_session in which a store operation failed is
\* followed by error_handling.
StartSessionEscapesToErrorHandling ==
    [][\A p \in Procs :
          (pc[p] = "start_session" /\ faultsLeft' < faultsLeft)
             => pc'[p] = "error_handling"]_vars

\* C30: whenever processing_errors is non-empty at the end of a stage,
\* finalize_response included, the turn runs error_handling before it ends:
\* every turn that ends with a recorded error has executed error_handling
\* and ends with current_step = complete and the fixed apology as its
\* response.
RecordedErrorEndsInErrorHandling ==
    \A p \in Procs :
        (pc[p] = "END" /\ st[p].processing_errors # <<>>)
           => /\ "error_handling" \in Range(executed[p])
              /\ st[p].current_step = "complete"
              /\ st[p].response_message = ApologyMsg

\* seq1 is an initial part of seq2
IsPrefix(seq1, seq2) ==
    Len(seq1) <= Len(seq2) /\ SubSeq(seq2, 1, Len(seq1)) = seq1

\* C31: within a turn processing_errors only grows: no step of a running
\* turn, the merge of the loaded state in start_session included, removes
\* or replaces a recorded entry. And every turn starts with empty
\* processing_errors, whatever errors earlier turns on the session recorded
\* and whatever the checkpoint of the session's thread holds.
ProcessingErrorsAppendOnly ==
    [][\A p \in Procs :
          /\ (pc[p] # "idle" /\ pc'[p] \notin {"idle", "RAISED"})
                => IsPrefix(st[p].processing_errors, st'[p].processing_errors)
          /\ (pc[p] = "idle" /\ pc'[p] = "start_session")
                => st'[p].processing_errors = <<>>
          /\ (pc[p] = "start_session" /\ pc'[p] = "analyze_input")
                => st'[p].processing_errors = <<>>]_vars
\* the second turn on a session whose first turn ended in error_handling
\* (no fault was injected and yet no goal was stored) has passed
\* start_session with no error
ProcessingErrorsAppendOnlyWitness ==
    /\ turns = 2
    /\ pc[1] = "analyze_input"
    /\ faultsLeft = MaxFaults
    /\ Len(goals) = 0
    /\ st[1].session_token \in tokens
    /\ st[1].session_token \in DOMAIN checkpoint
    /\ st[1].processing_errors = <<>>

\* how often `stage` occurs in the stage bodies a turn has run
TimesExecuted(p, stage) ==
    Cardinality({i \in DOMAIN executed[p] : executed[p][i] = stage})

\* C32: in every turn each of the stage bodies analyze_input, identify_goals
\* and generate_plan runs at most once. A turn stands at one of these
\* stages only before the stage's body has run (the self-loop of its guard
\* is never taken), and once the body has returned its completion flag is
\* set or processing_errors is non-empty; so a turn makes at most three
\* wrapper invokes.
StageBodiesRunOnce ==
    \A p \in Procs :
        /\ \A stage \in RoutedStages :
               /\ TimesExecuted(p, stage) <= 1
               /\ pc[p] = stage => stage \notin Range(executed[p])
               /\ (stage \in Range(executed[p]) /\ pc[p] \in Stages \cup {"END"})
                     => \/ CompletionFlag(stage, st[p])
                        \/ st[p].processing_errors # <<>>
        /\ Len(SelectSeq(executed[p], LAMBDA n : n \in RoutedStages)) <= 3
\* a turn has ended after each of the three bodies ran once and set its flag
StageBodiesRunOnceWitness ==
    /\ pc[1] = "END"
    /\ executed[1] = <<"start_session", "analyze_input", "identify_goals",
                       "generate_plan", "finalize_response">>
    /\ st[1].analysis_complete /\ st[1].goal_identified /\ st[1].plan_generated
    /\ st[1].processing_errors = <<>>

\* C33: the wrapper's counters are incremented only when an external call
\* succeeds: every step in which the daily counter rises is a step in which
\* some invoke's generate_content call returned its text, so a failed
\* attempt and an attempt refused at admission leave the counter unchanged.
CounterCountsSuccessfulCalls ==
    [][daily_request_count' > daily_request_count
          => \E p \in Procs :
                 /\ inv'[p] # inv[p]
                 /\ inv'[p].returned
                 /\ inv'[p].last_class = "none"]_vars

\* turn p runs _rate_limit_check from its start in this step: at the start
\* of an invoke or when a backoff sleep has ended
AttemptStep(p) ==
    \/ InvokeStarts(p)
    \/ pc[p] = "backoff_sleep" /\ inv'[p].attempt = inv[p].attempt + 1
\* the calls turn p makes in this step
CallsMade(p) ==
    inv'[p].calls - (IF InvokeStarts(p) THEN 0 ELSE inv[p].calls)

\* C34: the first admission check after the date has passed the last reset
\* date sets the daily counter to zero before the ceiling test, so the check
\* is not refused, whatever the counter was, and the reset date becomes the
\* current date. A check on the date of the last reset never resets: the
\* counter keeps its value or rises by the call made. Nothing else changes
\* the reset date or lowers the counter.
DailyCounterResetsOnNewDate ==
    [][/\ \A p \in Procs :
             AttemptStep(p)
                => IF today > last_reset_time
                   THEN /\ last_reset_time' = today
                        /\ daily_request_count' = CallsMade(p)
                        /\ CallsMade(p) = 1 \/ pc'[p] = "pacing_sleep"
                   ELSE /\ last_reset_time' = last_reset_time
                        /\ daily_request_count'
                              = daily_request_count + CallsMade(p)
       /\ (\/ last_reset_time' # last_reset_time
           \/ daily_request_count' < daily_request_count)
             => /\ today > last_reset_time
                /\ \E p \in Procs : AttemptStep(p)]_vars
\* a turn whose analysis was refused at the ceiling (no call failed, yet the
\* analysis is the fallback text) had its goal extraction admitted after
\* midnight
DailyCounterResetsOnNewDateWitness ==
    /\ faultsLeft = AllFaults
    /\ st[1].user_analysis = UnexpectedMsg
    /\ inv[1].stage = "identify_goals"
    /\ inv[1].calls = 1
    /\ inv[1].returned
    /\ inv[1].last_class = "none"
    /\ today = 1
    /\ last_reset_time = 1
    /\ daily_request_count = 1

\* C35: every turn, whether it ends through finalize_response or through
\* error_handling, replaces the session's persisted payload with the turn's
\* conversation history: when a turn has ended and nothing has failed in
\* the store or in a call, the session row holds exactly the history the
\* turn ended with.
EveryTurnSavesSession ==
    \A p \in Procs :
        (pc[p] = "END" /\ faultsLeft = MaxFaults)
           => /\ SessionExists(sessions, st[p].session_token)
              /\ PersistedHistory(sessions, st[p].session_token)
                    = st[p].conversation_history

\* where `stage` stands in the stage bodies turn p has run, 0 if it has not
PlaceExecuted(p, stage) ==
    IF stage \in Range(executed[p])
    THEN CHOOSE i \in DOMAIN executed[p] : executed[p][i] = stage
    ELSE 0

\* C36: in every state of a turn plan_generated implies goal_identified and
\* goal_identified implies analysis_complete; a turn stands at
\* finalize_response only with all three flags set and processing_errors
\* empty; and the wrapper is invoked for the analysis before the goal
\* extraction and for the goal extraction before the plan.
FlagsFollowStageOrder ==
    \A p \in Procs :
        /\ st[p].plan_generated => st[p].goal_identified
        /\ st[p].goal_identified => st[p].analysis_complete
        /\ pc[p] = "finalize_response"
              => /\ st[p].analysis_complete
                 /\ st[p].goal_identified
                 /\ st[p].plan_generated
                 /\ st[p].processing_errors = <<>>
        /\ "finalize_response" \in Range(executed[p])
              => /\ st[p].analysis_complete
                 /\ st[p].goal_identified
                 /\ st[p].plan_generated
        /\ "identify_goals" \in Range(executed[p])
              => /\ PlaceExecuted(p, "analyze_input") # 0
                 /\ PlaceExecuted(p, "analyze_input")
                       < PlaceExecuted(p, "identify_goals")
        /\ "generate_plan" \in Range(executed[p])
              => /\ PlaceExecuted(p, "identify_goals") # 0
                 /\ PlaceExecuted(p, "identify_goals")
                       < PlaceExecuted(p, "generate_plan")
\* the second turn on a session stands at finalize_response, after the
\* first turn's state was loaded and merged
FlagsFollowStageOrderWitness ==
    /\ turns = 2
    /\ pc[1] = "finalize_response"
    /\ Len(st[1].conversation_history) = 2
    /\ st[1].plan_generated
    /\ executed[1] = <<"start_session", "analyze_input", "identify_goals",
                       "generate_plan">>

\* the user messages of the entries of a conversation history
MessagesIn(history) == {history[i].user_message : i \in DOMAIN history}

\* C37: two turns run concurrently on the same session token and both end
\* through finalize_response: whatever the interleaving, the persisted
\* conversation history then holds the entries of both turns.
ConcurrentTurnsKeepBothEntries ==
    (/\ \A p \in Procs :
            /\ pc[p] = "END"
            /\ "finalize_response" \in Range(executed[p])
            /\ st[p].processing_errors = <<>>
     /\ st[1].session_token = st[2].session_token)
       => \A p \in Procs :
              st[p].user_message
                 \in MessagesIn(PersistedHistory(sessions, st[1].session_token))

\* C38: save_session_state returns True only if the session payload was
\* committed to the relational store: when the database upsert fails it
\* returns False, and when it returns False the stored payload is the one
\* from before the call. Stated at finalize_response, for every way the
\* store can behave there.
SaveReturnsTrueOnlyIfCommitted ==
    \A p \in Procs :
        pc[p] = "finalize_response" =>
            \A fault \in {"none", "commit", "chroma"} :
                CanFail(FaultCost(fault)) =>
                    LET state == [st[p] EXCEPT
                                     !.response_message = ComposeResponse(st[p]),
                                     !.current_step = "complete"]
                        saved == SaveSessionState(sessions, state, fault)
                        token == state.session_token
                    IN  /\ saved.ok =>
                               /\ SessionExists(saved.sessions, token)
                               /\ saved.sessions[token].data
                                     = EncryptData([conversation_history |->
                                                      state.conversation_history])
                        /\ ~saved.ok => saved.sessions = sessions

\* C39: get_or_create_user_for_session is all-or-nothing on the store: in
\* every reachable store state each User row is linked from some session
\* row, and the user id a turn holds once start_session has run refers to
\* an existing User row.
GetOrCreateUserAllOrNothing ==
    /\ \A u \in users : \E t \in DOMAIN sessions : sessions[t].user = u
    /\ \A p \in Procs :
           "start_session" \in Range(executed[p]) => st[p].user_id \in users

\* C40: in the HTTP service a coaching session's message log is changed only
\* by the user who started it: a request that changes the messages of a
\* session is answered to that session's user_id, and a request of any
\* other authenticated user is rejected.
MessageLogChangedOnlyByOwner ==
    [][\A sid \in DOMAIN sessions_file :
           (/\ sid \in DOMAIN sessions_file'
            /\ sessions_file'[sid].messages # sessions_file[sid].messages)
               => /\ http_response'.username = sessions_file[sid].user_id
                  /\ http_response'.status = 200]_vars
\* the same for goals, where update_goal compares the goal's user_id with
\* the caller (lines 388-389)
GoalChangedOnlyByOwner ==
    [][\A gid \in DOMAIN goals_file :
           (gid \in DOMAIN goals_file' /\ goals_file'[gid] # goals_file[gid])
               => /\ http_response'.username = goals_file[gid].user_id
                  /\ http_response'.status = 200]_vars
\* an authenticated user has just been refused the update of another
\* user's goal
GoalUpdateRefused ==
    /\ http_response # NoResult
    /\ http_response.status = 403
    /\ \E gid \in DOMAIN goals_file :
           goals_file[gid].user_id # http_response.username

====
